---- MODULE Spec2Model ----
(***************************************************************************)
(* PopulatingCache (src/src/PopulatingCache.js, the class that starts at   *)
(* line 451): a path-addressed tree cache with a mirrored metadata tree,   *)
(* TTL based expiry, read-through fetching and reference population.       *)
(*                                                                         *)
(* JavaScript values are tagged records:                                   *)
(*   [t |-> "undefined"], [t |-> "null"],                                  *)
(*   [t |-> "string"|"number"|"boolean", v |-> <text>]                     *)
(*   [t |-> "object"|"array", f |-> named properties, e |-> indexed ones]  *)
(* Numbers carry their canonical decimal text, so that 7 and "7" are       *)
(* different values that == (but not ===) identifies.                      *)
(***************************************************************************)
EXTENDS Integers, Sequences, FiniteSets, TLC

VARIABLES
  cacheData,      \* this.cacheData
  cacheMetadata,  \* this.cacheMetadata
  listeners,      \* this.listeners
  now,            \* Date.now()
  calls,          \* the get calls that wait for the backend, each with its frames
  last,           \* the operation that finished last, with what it returned
  ops             \* the number of operations started

vars == <<cacheData, cacheMetadata, listeners, now, calls, last, ops>>

(***************************************************************************)
(* Bounds of the model                                                     *)
(***************************************************************************)
MaxOps == 3
MaxNow == 2
MaxCalls == 1
MaxDepth == 3

(***************************************************************************)
(* Program constants                                                       *)
(***************************************************************************)
\* DEFAULT_CONFIG.ttl, in units of one minute (60 * 1000 ms)
DefaultTTL == 1
FORCE_BACKEND_CALL == 1
CALL_BACKEND_WHEN_EXPIRED == 0
DO_NOT_CALL_BACKEND == -1
idAttr == "_id"
referencedPathAttr == "$refPath"

(***************************************************************************)
(* JavaScript values                                                       *)
(***************************************************************************)
Undef == [t |-> "undefined"]
Null == [t |-> "null"]
Str(s) == [t |-> "string", v |-> s]
Num(s) == [t |-> "number", v |-> s]
Bool(s) == [t |-> "boolean", v |-> s]
Obj(props) == [t |-> "object", f |-> props, e |-> <<>>]
Arr(elems) == [t |-> "array", f |-> <<>>, e |-> elems]
EmptyObj == Obj(<<>>)
EmptyArr == Arr(<<>>)

\* The outcome of an expression that throws
Throw == [t |-> "throw"]

IsContainer(x) == x.t \in {"object", "array"}
IsScalar(x) == x.t \in {"string", "number", "boolean"}
IsNullish(x) == x.t \in {"undefined", "null"}

\* typeof x
TypeOf(x) ==
  CASE x.t = "undefined" -> "undefined"
    [] x.t \in {"null", "object", "array"} -> "object"
    [] OTHER -> x.t

\* ToBoolean(x): what `!x` and `x || y` test
Truthy(x) ==
  CASE IsContainer(x) -> TRUE
    [] x.t = "string" -> x.v # ""
    [] x.t = "number" -> x.v # "0"
    [] x.t = "boolean" -> x.v = "true"
    [] OTHER -> FALSE

\* a === b for the values compared in the code (identities and undefined)
StrictEq(a, b) == (IsScalar(a) \/ IsNullish(a)) /\ a = b

\* a == b: a number and a string are equal when their numeric text is
LooseEq(a, b) ==
  CASE IsNullish(a) /\ IsNullish(b) -> TRUE
    [] a.t \in {"string", "number"} /\ b.t \in {"string", "number"} -> a.v = b.v
    [] OTHER -> StrictEq(a, b)

\* x[key] for a property name: a TypeError on undefined and null
Prop(x, key) ==
  CASE IsNullish(x) -> Throw
    [] IsContainer(x) -> IF key \in DOMAIN x.f THEN x.f[key] ELSE Undef
    [] OTHER -> Undef

\* x[i] for an index i >= 0 (a string of the model has one character)
Elem(x, i) ==
  CASE IsNullish(x) -> Throw
    [] IsContainer(x) -> IF i + 1 <= Len(x.e) THEN x.e[i + 1] ELSE Undef
    [] x.t = "string" -> IF i = 0 /\ x.v # "" THEN x ELSE Undef
    [] OTHER -> Undef

\* x[key] = v in strict mode: a TypeError on everything but objects and arrays
SetProp(x, key, v) ==
  IF IsContainer(x) THEN [x EXCEPT !.f = (key :> v) @@ x.f] ELSE Throw

\* x[i] = v in strict mode; slots skipped over stay undefined
SetElem(x, i, v) ==
  IF IsContainer(x)
  THEN [x EXCEPT !.e = [j \in 1..(IF Len(x.e) > i + 1 THEN Len(x.e) ELSE i + 1) |->
                          IF j = i + 1 THEN v
                          ELSE IF j <= Len(x.e) THEN x.e[j] ELSE Undef]]
  ELSE Throw

\* x.push(v): only arrays have push
Push(x, v) == IF x.t = "array" THEN [x EXCEPT !.e = Append(x.e, v)] ELSE Throw

\* {...a, ...b} as put uses it with typeof b === "object"
Spread(a, b) ==
  LET fa == IF IsContainer(a) THEN a.f ELSE <<>>
      ea == CASE IsContainer(a) -> a.e
              [] a.t = "string" /\ a.v # "" -> <<a>>
              [] OTHER -> <<>>
      fb == IF IsContainer(b) THEN b.f ELSE <<>>
      eb == IF IsContainer(b) THEN b.e ELSE <<>>
      n == IF Len(ea) > Len(eb) THEN Len(ea) ELSE Len(eb)
  IN [t |-> "object", f |-> fb @@ fa,
      e |-> [j \in 1..n |-> IF j <= Len(eb) /\ eb[j] # Undef THEN eb[j]
                            ELSE IF j <= Len(ea) THEN ea[j] ELSE Undef]]

\* A number held as an integer: array indices and TTL timestamps
IntNum(n) == [t |-> "number", n |-> n]
IsInt(x) == x.t = "number" /\ "n" \in DOMAIN x

(***************************************************************************)
(* Paths.  A caller's path is [form, parts]: form "string" is a string     *)
(* split at its dots, "array" an array, "object" a single {key: id}.  A    *)
(* part is a string already cut by pathElemRegEx into key and suffix,      *)
(*   [ty |-> "s", key, suf \in {"", "index", "append", "idNum", "id"},     *)
(*    arg (the id text), n (the index)],                                   *)
(* a string the regex rejects ([ty |-> "bad"]), or an object               *)
(*   [ty |-> "o", key, id].                                                *)
(***************************************************************************)
Key(k) == [ty |-> "s", key |-> k, suf |-> "", arg |-> "", n |-> 0]
KeyIndex(k, i) == [ty |-> "s", key |-> k, suf |-> "index", arg |-> "", n |-> i]
KeyAppend(k) == [ty |-> "s", key |-> k, suf |-> "append", arg |-> "", n |-> 0]
KeyIdNum(k, digits) == [ty |-> "s", key |-> k, suf |-> "idNum", arg |-> digits, n |-> 0]
KeyId(k, text) == [ty |-> "s", key |-> k, suf |-> "id", arg |-> text, n |-> 0]
KeyObj(k, id) == [ty |-> "o", key |-> k, id |-> id]
BadElem == [ty |-> "bad"]

StringPath(parts) == [form |-> "string", parts |-> parts]
ArrayPath(parts) == [form |-> "array", parts |-> parts]
ObjectPath(part) == [form |-> "object", parts |-> <<part>>]

\* One element of parsePath's loop: a segment {key, id, index, appendArray}
ParseElem(el) ==
  IF el.ty = "o"
  THEN [key |-> el.key, id |-> el.id, index |-> Undef, appendArray |-> FALSE]
  ELSE [key |-> el.key,
        id |-> CASE el.suf = "idNum" -> Num(el.arg)
                 [] el.suf = "id" -> Str(el.arg)
                 [] OTHER -> Undef,
        index |-> IF el.suf = "index" THEN IntNum(el.n) ELSE Undef,
        appendArray |-> el.suf = "append"]

\* parsePath(path): [ok, segs]; ok = FALSE when it throws
parsePath(path) ==
  IF \/ path.form = "string" /\ path.parts = <<>>
     \/ \E i \in 1..Len(path.parts) : path.parts[i].ty = "bad"
  THEN [ok |-> FALSE, segs |-> <<>>]
  ELSE [ok |-> TRUE, segs |-> [i \in 1..Len(path.parts) |-> ParseElem(path.parts[i])]]

\* getSubPath that writes an identity segment back as the text "key/id"
getSubPathAsText(parsed, end) ==
  ArrayPath([i \in 1..end |->
    LET s == parsed[i] IN
    CASE s.id # Undef -> IF s.id.t = "number" THEN KeyIdNum(s.key, s.id.v)
                         ELSE KeyId(s.key, s.id.v)
      [] s.index # Undef -> KeyIndex(s.key, s.index.n)
      [] s.appendArray -> KeyAppend(s.key)
      [] OTHER -> Key(s.key)])

\* getSubPath(parsedPathArray, start, end) with start = 0: the path handed to fetchFunc
getSubPath(parsed, end) ==
  ArrayPath([i \in 1..end |->
    LET s == parsed[i] IN
    CASE s.id # Undef -> KeyObj(s.key, s.id)
      [] s.index # Undef -> KeyIndex(s.key, s.index.n)
      [] s.appendArray -> KeyAppend(s.key)
      [] OTHER -> Key(s.key)])

\* The branch that put, get and getSync take for a segment
IsPlainSeg(s) == s.index = Undef /\ s.id = Undef
IsIndexSeg(s) == s.index # Undef /\ s.index.n >= 0 /\ s.id = Undef
IsIdSeg(s) == s.index = Undef /\ Truthy(s.id)

(***************************************************************************)
(* Metadata nodes are objects of the same kind: a leaf written by put is   *)
(* {ttl, type} (and _id under an identity segment); children hang on the   *)
(* same object.                                                            *)
(***************************************************************************)
LeafMeta(ttl, value) == Obj(("ttl" :> IntNum(ttl)) @@ ("type" :> Str(TypeOf(value))))
LeafMetaId(id, ttl, value) ==
  Obj((idAttr :> id) @@ ("ttl" :> IntNum(ttl)) @@ ("type" :> Str(TypeOf(value))))

\* A comparison that also takes a ttl equal to the time for expired
IsExpiredAtTtl(m, t) ==
  LET x == Prop(m, "ttl") IN IsInt(x) /\ x.n <= t

\* m.ttl < Date.now(): false when m has no ttl
IsExpired(m, t) ==
  LET x == Prop(m, "ttl") IN IsInt(x) /\ x.n < t

(***************************************************************************)
(* put                                                                     *)
(***************************************************************************)
\* The first index at which array.findIndex(el => el[idAttr] <eq> id) stops:
\* [st |-> "found", i], [st |-> "none"] or [st |-> "throw"] (el is undefined
\* or null, or the receiver has no findIndex)
FindIndexBy(arr, id, strict) ==
  IF arr.t # "array" THEN [st |-> "throw", i |-> 0]
  ELSE
    LET hit(j) == IF IsNullish(arr.e[j]) THEN TRUE
                  ELSE IF strict THEN StrictEq(Prop(arr.e[j], idAttr), id)
                       ELSE LooseEq(Prop(arr.e[j], idAttr), id)
        stops == {j \in 1..Len(arr.e) : hit(j)}
    IN IF stops = {} THEN [st |-> "none", i |-> 0]
       ELSE LET j == CHOOSE k \in stops : \A l \in stops : k <= l
            IN IF IsNullish(arr.e[j]) THEN [st |-> "throw", i |-> 0]
               ELSE [st |-> "found", i |-> j - 1]

\* What a put walk hands back: the nodes as the walk left them, whether it
\* threw, the value (put adds a missing _id to it) and whether the leaf was written
PutResult(d, m, st, val, fire) == [d |-> d, m |-> m, st |-> st, val |-> val, fire |-> fire]

\* `if (!x[key]) x[key] = init`
Vivify(x, key, init) == IF Truthy(Prop(x, key)) THEN x ELSE SetProp(x, key, init)

\* Write a child that the walk stepped into back to where it was read from
BackProp(x, key, child) == IF IsContainer(x) THEN SetProp(x, key, child) ELSE x
BackElem(x, i, child) == IF IsContainer(x) THEN SetElem(x, i, child) ELSE x

\* The value a leaf write stores: {...old, ...value} under merge, else value
LeafValue(old, value, opts) ==
  IF opts.merge /\ TypeOf(value) = "object" THEN Spread(old, value) ELSE value

\* put throws with the trees as they are at that point
PutThrows(d, m, value) == PutResult(d, m, "throw", value, FALSE)

RECURSIVE PutWalk(_, _, _, _, _, _, _)

\* The trees after the walk below property key has returned r
BelowProp(d1, m1, key, r) ==
  PutResult(BackProp(d1, key, r.d), BackProp(m1, key, r.m), r.st, r.val, r.fire)

\* The trees after the walk below element ix of array key has returned r
BelowElem(d1, m1, a1, ma1, key, ix, r) ==
  PutResult(BackProp(d1, key, BackElem(a1, ix, r.d)),
            BackProp(m1, key, BackElem(ma1, ix, r.m)), r.st, r.val, r.fire)

\* Plain key, not the last segment: d1 and m1 are the nodes after
\* `x[key] || (x[key] = {})`; step into both
PlainInner(d, m, d1, m1, key, segs, i, value, opts, t) ==
  IF d1 = Throw THEN PutThrows(d, m, value)
  ELSE IF m1 = Throw THEN PutThrows(d1, m, value)
  ELSE BelowProp(d1, m1, key,
                 PutWalk(Prop(d1, key), Prop(m1, key), segs, i + 1, value, opts, t))

\* Plain key, the last segment: d1 and m1 are the nodes after the two writes
PlainLeaf(d, m, d1, m1, value) ==
  IF d1 = Throw THEN PutThrows(d, m, value)
  ELSE IF m1 = Throw THEN PutThrows(d1, m, value)
  ELSE PutResult(d1, m1, "ok", value, TRUE)

\* "key[]": d2 is the data node after the push, mp the metadata array after its push
AppendLeaf(d2, m1, key, mp, value) ==
  IF mp = Throw THEN PutThrows(d2, m1, value)
  ELSE PutResult(d2, SetProp(m1, key, mp), "ok", value, TRUE)

\* "key[]" with both arrays created
AppendBranch(d1, m1, key, isLast, value, ttl) ==
  IF ~isLast THEN PutThrows(d1, m1, value)
  ELSE IF Prop(d1, key).t # "array" THEN PutThrows(d1, m1, value)
  ELSE AppendLeaf(SetProp(d1, key, Push(Prop(d1, key), value)), m1, key,
                  Push(Prop(m1, key), LeafMeta(ttl, value)), value)

\* An array element, not the last segment: a1 and ma1 are the arrays after
\* `x[key][index] || (x[key][index] = ...)`; step into both elements
ElemInner(d1, m1, a1, ma1, key, ix, segs, i, value, opts, t) ==
  IF a1 = Throw THEN PutThrows(d1, m1, value)
  ELSE IF ma1 = Throw THEN PutThrows(BackProp(d1, key, a1), m1, value)
  ELSE BelowElem(d1, m1, a1, ma1, key, ix,
                 PutWalk(Elem(a1, ix), Elem(ma1, ix), segs, i + 1, value, opts, t))

\* An array element, the last segment: a1 and ma1 are the arrays after the two writes
ElemLeaf(d1, m1, a1, ma1, key, value) ==
  IF a1 = Throw THEN PutThrows(d1, m1, value)
  ELSE IF ma1 = Throw THEN PutThrows(SetProp(d1, key, a1), m1, value)
  ELSE PutResult(SetProp(d1, key, a1), SetProp(m1, key, ma1), "ok", value, TRUE)

\* "key[index]" with both arrays (a, ma) created
IndexBranch(d1, m1, a, ma, key, ix, segs, i, value, opts, t) ==
  IF i < Len(segs)
  THEN ElemInner(d1, m1,
                 IF Truthy(Elem(a, ix)) THEN a ELSE SetElem(a, ix, EmptyObj),
                 IF Truthy(Elem(ma, ix)) THEN ma ELSE SetElem(ma, ix, EmptyObj),
                 key, ix, segs, i, value, opts, t)
  ELSE ElemLeaf(d1, m1,
                SetElem(a, ix, LeafValue(Elem(a, ix), value, opts)),
                SetElem(ma, ix, LeafMeta(t + opts.ttl, value)), key, value)

\* "key/id", the last segment, with the element at ix of a1: the checks of
\* value, the _id put adds to it, and the two writes
IdLeaf(d1, m1, a1, ix, s, value, opts, ttl) ==
  IF TypeOf(value) # "object" THEN PutThrows(SetProp(d1, s.key, a1), m1, value)
  ELSE IF Truthy(value) /\ Truthy(Prop(value, idAttr)) /\ ~LooseEq(Prop(value, idAttr), s.id)
  THEN PutThrows(SetProp(d1, s.key, a1), m1, value)
  ELSE IF Truthy(value) /\ Prop(value, idAttr) = Undef
  THEN ElemLeaf(d1, m1,
                SetElem(a1, ix, LeafValue(Elem(a1, ix), SetProp(value, idAttr, s.id), opts)),
                SetElem(Prop(m1, s.key), ix,
                        LeafMetaId(s.id, ttl, SetProp(value, idAttr, s.id))),
                s.key, SetProp(value, idAttr, s.id))
  ELSE ElemLeaf(d1, m1,
                SetElem(a1, ix, LeafValue(Elem(a1, ix), value, opts)),
                SetElem(Prop(m1, s.key), ix, LeafMetaId(s.id, ttl, value)),
                s.key, value)

\* "key/id" with the element at ix of a1 (found, or the pushed {_id: id})
IdAt(d1, m1, a1, ix, s, segs, i, value, opts, t) ==
  IF i < Len(segs)
  THEN ElemInner(d1, m1, a1,
                 IF Truthy(Elem(Prop(m1, s.key), ix)) THEN Prop(m1, s.key)
                 ELSE SetElem(Prop(m1, s.key), ix, Obj(idAttr :> s.id)),
                 s.key, ix, segs, i, value, opts, t)
  ELSE IdLeaf(d1, m1, a1, ix, s, value, opts, t + opts.ttl)

\* "key/id" with both arrays created and found = findIndex on the data array a
IdBranch(d1, m1, a, found, s, segs, i, value, opts, t) ==
  IF found.st = "throw" THEN PutThrows(d1, m1, value)
  ELSE IF found.st = "none"
  THEN IdAt(d1, m1, Push(a, Obj(idAttr :> s.id)), Len(a.e), s, segs, i, value, opts, t)
  ELSE IdAt(d1, m1, a, found.i, s, segs, i, value, opts, t)

\* "key[]", "key[index]" and "key/id": d1 and m1 are the nodes after
\* `if (!x[key]) x[key] = []`
ArrayBranch(d, m, d1, m1, s, segs, i, value, opts, t) ==
  IF d1 = Throw THEN PutThrows(d, m, value)
  ELSE IF m1 = Throw THEN PutThrows(d1, m, value)
  ELSE IF IsPlainSeg(s)
  THEN AppendBranch(d1, m1, s.key, i = Len(segs), value, t + opts.ttl)
  ELSE IF IsIndexSeg(s)
  THEN IndexBranch(d1, m1, Prop(d1, s.key), Prop(m1, s.key), s.key, s.index.n,
                   segs, i, value, opts, t)
  ELSE IdBranch(d1, m1, Prop(d1, s.key), FindIndexBy(Prop(d1, s.key), s.id, TRUE),
                s, segs, i, value, opts, t)

\* The body of put's loop for segment i, with cacheElem = d and metadataElem = m
PutWalk(d, m, segs, i, value, opts, t) ==
  IF IsPlainSeg(segs[i]) /\ ~segs[i].appendArray
  THEN IF i < Len(segs)
       THEN PlainInner(d, m, Vivify(d, segs[i].key, EmptyObj),
                       Vivify(m, segs[i].key, EmptyObj), segs[i].key,
                       segs, i, value, opts, t)
       ELSE PlainLeaf(d, m,
                      SetProp(d, segs[i].key,
                              LeafValue(Prop(d, segs[i].key), value, opts)),
                      SetProp(m, segs[i].key, LeafMeta(t + opts.ttl, value)), value)
  ELSE IF IsPlainSeg(segs[i]) \/ IsIndexSeg(segs[i]) \/ IsIdSeg(segs[i])
  THEN ArrayBranch(d, m, Vivify(d, segs[i].key, EmptyArr),
                   Vivify(m, segs[i].key, EmptyArr), segs[i], segs, i, value, opts, t)
  ELSE PutThrows(d, m, value)

(***************************************************************************)
(* firePutEvent                                                            *)
(***************************************************************************)
\* The match loop of firePutEvent for one listener: "yes", "no", or "throw"
\* when the listener's path is longer than the put's (parsedPath[i] is undefined)
ListenerMatch(l, pp) ==
  IF l.exact /\ Len(pp) # Len(l.path) THEN "no"
  ELSE
    LET miss(i) == \/ i > Len(pp)
                   \/ l.path[i].key # pp[i].key
                   \/ Truthy(l.path[i].id) /\ ~StrictEq(l.path[i].id, pp[i].id)
                   \/ /\ l.path[i].index # Undef /\ l.path[i].index.n # 0
                      /\ l.path[i].index # pp[i].index
        stops == {i \in 1..Len(l.path) : miss(i)}
    IN IF stops = {} THEN "yes"
       ELSE IF (CHOOSE k \in stops : \A j \in stops : k <= j) > Len(pp) THEN "throw"
       ELSE "no"

\* firePutEvent(path, value, parsedPath): the listeners called, in order, and
\* whether the forEach threw before it reached the end
firePutEvent(ls, pp) ==
  LET bad == {j \in 1..Len(ls) : ListenerMatch(ls[j], pp) = "throw"}
      stop == IF bad = {} THEN Len(ls) + 1 ELSE CHOOSE k \in bad : \A j \in bad : k <= j
  IN [ids |-> SelectSeq([j \in 1..(stop - 1) |->
                           IF ListenerMatch(ls[j], pp) = "yes" THEN ls[j].listenerId ELSE -1],
                        LAMBDA x : x # -1),
      called |-> SelectSeq([j \in 1..(stop - 1) |->
                              IF ListenerMatch(ls[j], pp) = "yes" THEN j ELSE 0],
                           LAMBDA x : x # 0),
      st |-> IF bad = {} THEN "ok" ELSE "throw"]

\* put(path, value, options) on trees d and m at time t:
\* [d, m, st, val, notified, called, fire]; notified holds the listenerIds and
\* called the positions in ls of the listeners called, fire says whether the
\* walk reached firePutEvent
put(d, m, ls, path, value, opts, t) ==
  LET parsed == parsePath(path) IN
  IF ~parsed.ok THEN [d |-> d, m |-> m, st |-> "throw", val |-> value, notified |-> <<>>,
                      called |-> <<>>, fire |-> FALSE]
  ELSE IF parsed.segs = <<>>
  THEN [d |-> d, m |-> m, st |-> "ok", val |-> value, notified |-> <<>>,
        called |-> <<>>, fire |-> FALSE]
  ELSE
    LET r == PutWalk(d, m, parsed.segs, 1, value, opts, t)
        ev == IF r.fire THEN firePutEvent(ls, parsed.segs)
              ELSE [ids |-> <<>>, called |-> <<>>, st |-> "ok"]
    IN [d |-> r.d, m |-> r.m,
        st |-> IF r.st = "ok" /\ ev.st = "ok" THEN "ok" ELSE "throw",
        val |-> r.val, notified |-> ev.ids, called |-> ev.called, fire |-> r.fire]

\* { ...this.config, ...options } with the options a caller can override
DefaultOpts ==
  [ttl |-> DefaultTTL, merge |-> FALSE, callBackend |-> CALL_BACKEND_WHEN_EXPIRED,
   populate |-> TRUE]

(***************************************************************************)
(* get.  An async call is a stack of frames, one per nested get; a frame   *)
(* holds the locals of get: parsedPath (pp), the loop counter (i, from 1), *)
(* cacheElem (ce), where metadataElem points to in the metadata tree       *)
(* (mpos, the steps from the root), the index found for an identity        *)
(* segment (ix), the options, and the await it is suspended at:            *)
(*   "ref"   await this.get(cacheElem[referencedPathAttr], opts)           *)
(*   "exp"   await this.fetchIfExpired(subPath, undefined, undefined, opts)*)
(*   "final" return this.fetchIfExpired(fullPath, cacheElem, metadataElem) *)
(* and, while it waits for the backend, the path fetchFunc was called with.*)
(***************************************************************************)
Frame(pp, opts, root) ==
  [pp |-> pp, i |-> 1, ce |-> root, mpos |-> <<>>, ix |-> Undef, opts |-> opts,
   at |-> "run", fetch |-> Undef]

RECURSIVE MetaAt(_, _)
\* The metadata node that metadataElem refers to
MetaAt(m, mpos) ==
  IF mpos = <<>> THEN m
  ELSE LET up == MetaAt(m, SubSeq(mpos, 1, Len(mpos) - 1))
           st == mpos[Len(mpos)]
           k == IF Truthy(up) THEN Prop(up, st.key) ELSE Undef
       IN IF st.index = Undef THEN k
          ELSE IF Truthy(k) THEN Elem(k, st.index.n) ELSE Undef

\* A $refPath value read as a path: the text of a string is its dotted form
RefPath(v) ==
  CASE v = Str("a") -> StringPath(<<Key("a")>>)
    [] v = Str("b") -> StringPath(<<Key("b")>>)
    [] v = Str("a.b") -> StringPath(<<Key("a"), Key("b")>>)
    [] v = Str("k/7") -> StringPath(<<KeyIdNum("k", "7")>>)
    [] v = Str("k[0]") -> StringPath(<<KeyIndex("k", 0)>>)
    [] OTHER -> StringPath(<<BadElem>>)

\* fetchIfExpired without its DO_NOT_CALL_BACKEND case
fetchIfExpiredWithoutNoBackendCase(ce, metadata, opts, t) ==
  CASE opts.callBackend = FORCE_BACKEND_CALL -> "fetch"
    [] OTHER ->
         IF ~Truthy(ce) \/ (Truthy(metadata) /\ IsExpired(metadata, t))
         THEN "fetch" ELSE "resolve"

\* fetchIfExpired(path, cacheElem, metadata, opts) up to the call of fetchFunc:
\* "fetch" (fetchFunc is called), "resolve" (with cacheElem) or "reject"
fetchIfExpired(ce, metadata, opts, t) ==
  CASE opts.callBackend = FORCE_BACKEND_CALL -> "fetch"
    [] opts.callBackend = DO_NOT_CALL_BACKEND ->
         IF Truthy(metadata) /\ IsExpired(metadata, t) THEN "reject" ELSE "resolve"
    [] OTHER ->
         IF ~Truthy(ce) \/ (Truthy(metadata) /\ IsExpired(metadata, t))
         THEN "fetch" ELSE "resolve"

\* What running a frame ends in
Done(v) == [k |-> "done", v |-> v]
Rejected(why) == [k |-> "reject", why |-> why]
Suspend(fr, path) == [k |-> "fetch", fr |-> [fr EXCEPT !.fetch = path]]
CallGet(fr, refValue) == [k |-> "call", fr |-> [fr EXCEPT !.at = "ref"], ref |-> refValue]

\* The metadata tree as frame fr reaches it.  metadataElem is a reference to
\* an object: when the cache drops the object while the frame waits, the
\* frame goes on reading the dropped object (fr.view, a tree that holds it at
\* the frame's position) and not what the cache holds there now
MetadataSeenBy(fr, m) == IF "view" \in DOMAIN fr THEN fr.view ELSE m

RECURSIVE Exec(_, _, _, _)
\* Run frame fr from program point pt until it returns, rejects, calls a
\* nested get or calls fetchFunc.  Points: "P0" the top of the loop body,
\* "P1" the expiry check after the reference check, "P2" the step of
\* metadataElem after the expiry check, "PF" the final fetchIfExpired.
Exec(fr, pt, m, t) ==
  IF pt = "PF" THEN
    LET how == fetchIfExpired(fr.ce, MetaAt(MetadataSeenBy(fr, m), fr.mpos), fr.opts, t) IN
    CASE how = "fetch" -> Suspend([fr EXCEPT !.at = "final"], getSubPath(fr.pp, Len(fr.pp)))
      [] how = "reject" -> Rejected("expired")
      [] OTHER -> Done(fr.ce)
  ELSE IF fr.i > Len(fr.pp) THEN Exec(fr, "PF", m, t)
  ELSE
    LET s == fr.pp[fr.i]
        key == s.key
    IN
    IF ~(IsPlainSeg(s) \/ IsIndexSeg(s) \/ IsIdSeg(s)) THEN Rejected("invalid path element")
    ELSE IF pt = "P0" THEN
      LET up == Prop(fr.ce, key) IN
      IF up = Throw THEN Rejected("TypeError")
      ELSE IF IsPlainSeg(s) THEN
        IF ~Truthy(up) THEN Exec([fr EXCEPT !.ce = up], "PF", m, t)
        ELSE IF fr.opts.populate /\ Truthy(Prop(up, referencedPathAttr))
        THEN CallGet([fr EXCEPT !.ce = up], Prop(up, referencedPathAttr))
        ELSE Exec([fr EXCEPT !.ce = up], "P1", m, t)
      ELSE IF IsIndexSeg(s) THEN
        LET c == Elem(up, s.index.n) IN
        IF c = Throw THEN Rejected("TypeError")
        ELSE IF ~Truthy(c) THEN Exec([fr EXCEPT !.ce = c], "PF", m, t)
        ELSE IF fr.opts.populate /\ Truthy(Prop(c, referencedPathAttr))
        THEN CallGet([fr EXCEPT !.ce = c, !.ix = s.index], Prop(c, referencedPathAttr))
        ELSE Exec([fr EXCEPT !.ce = c, !.ix = s.index], "P1", m, t)
      ELSE
        IF ~Truthy(up) THEN Exec(fr, "PF", m, t)
        ELSE
          LET found == FindIndexBy(up, s.id, FALSE) IN
          IF found.st = "throw" THEN Rejected("TypeError")
          ELSE IF found.st = "none" THEN Exec(fr, "PF", m, t)
          ELSE
            LET c == Elem(up, found.i) IN
            IF fr.opts.populate /\ Truthy(Prop(c, referencedPathAttr))
            THEN CallGet([fr EXCEPT !.ce = c, !.ix = IntNum(found.i)],
                         Prop(c, referencedPathAttr))
            ELSE Exec([fr EXCEPT !.ce = c, !.ix = IntNum(found.i)], "P1", m, t)
    ELSE
      LET me == MetaAt(MetadataSeenBy(fr, m), fr.mpos)
          step == [key |-> key, index |-> IF IsPlainSeg(s) THEN Undef ELSE fr.ix]
          child == MetaAt(MetadataSeenBy(fr, m), Append(fr.mpos, step))
      IN
      IF pt = "P1" THEN
        IF Truthy(me) /\ Truthy(child) THEN
          IF IsExpired(child, t) THEN
            IF fetchIfExpired(Undef, Undef, fr.opts, t) = "fetch"
            THEN Suspend([fr EXCEPT !.at = "exp"], getSubPath(fr.pp, fr.i))
            ELSE Exec([fr EXCEPT !.ce = Undef], "P2", m, t)
          ELSE Exec(fr, "P2", m, t)
        ELSE Exec([fr EXCEPT !.i = fr.i + 1, !.ix = Undef], "P0", m, t)
      ELSE
        Exec([fr EXCEPT !.mpos = Append(fr.mpos, step), !.i = fr.i + 1, !.ix = Undef],
             "P0", m, t)

\* A recursion that no engine ends: the get that started it never settles
EndlessRecursion(below) == [k |-> "diverge"]

\* await this.get(...) calls the nested get before it suspends, so a chain of
\* markers is walked by synchronous recursion.  With `below` on the stack the
\* next call exhausts it: the engine throws a RangeError inside an async
\* function, whose promise rejects, and so does every caller that awaits it
StackOverflow(below) == Rejected("RangeError")

RECURSIVE Run(_, _, _, _, _)
\* Continue a call whose top frame ended in res, below it the frames that
\* await it: a returning frame resumes its caller after the reference check,
\* a rejection rejects every caller, a nested get starts a frame at the root.
\* The stack holds MaxDepth frames of get.
Run(below, res, root, m, t) ==
  CASE res.k = "done" ->
         IF below = <<>> THEN res
         ELSE Run(SubSeq(below, 1, Len(below) - 1),
                  Exec([below[Len(below)] EXCEPT !.ce = res.v], "P1", m, t), root, m, t)
    [] res.k = "reject" -> res
    [] res.k = "fetch" -> [k |-> "fetch", stack |-> Append(below, res.fr)]
    [] OTHER ->
         LET parsed == parsePath(RefPath(res.ref)) IN
         IF ~parsed.ok THEN Rejected("invalid path")
         ELSE IF Len(below) + 1 >= MaxDepth THEN StackOverflow(below)
         ELSE Run(Append(below, res.fr),
                  Exec(Frame(parsed.segs, res.fr.opts, root), "P0", m, t), root, m, t)

\* The path fetchFunc was called with by a waiting call
FetchPath(call) == call.stack[Len(call.stack)].fetch

(***************************************************************************)
(* getSync and isInCache                                                   *)
(***************************************************************************)
Returned(v) == [st |-> "ok", v |-> v]
Threw(why) == [st |-> "throw", v |-> Undef, why |-> why]

RECURSIVE GetSyncWalk(_, _, _, _, _, _, _, _, _, _)
\* The body of getSync's loop for segment i, with cacheElem = ce and
\* metadataElem = me; a nested getSync starts at the roots
GetSyncWalk(ce, me, segs, i, opts, throwWhenExpired, root, rootMeta, t, depth) ==
  IF i > Len(segs) THEN Returned(ce)
  ELSE
    LET s == segs[i]
        key == s.key
        up == Prop(ce, key)
        expired == IF throwWhenExpired THEN Threw("expired") ELSE Returned(Undef)
    IN
    IF ~(IsPlainSeg(s) \/ IsIndexSeg(s) \/ IsIdSeg(s)) THEN Threw("invalid path element")
    ELSE IF up = Throw THEN Threw("TypeError")
    ELSE
      LET found == IF IsIdSeg(s) /\ Truthy(up) THEN FindIndexBy(up, s.id, FALSE)
                   ELSE [st |-> "none", i |-> 0]
          ix == IF IsIndexSeg(s) THEN s.index.n ELSE found.i
          c == CASE IsPlainSeg(s) -> up
                 [] IsIndexSeg(s) -> Elem(up, ix)
                 [] OTHER -> IF found.st = "found" THEN Elem(up, ix) ELSE Undef
      IN
      IF c = Throw \/ found.st = "throw" THEN Threw("TypeError")
      ELSE IF ~Truthy(c) THEN Returned(Undef)
      ELSE
        LET isRef == opts.populate /\ Truthy(Prop(c, referencedPathAttr))
            parsed == IF isRef THEN parsePath(RefPath(Prop(c, referencedPathAttr)))
                      ELSE [ok |-> TRUE, segs |-> <<>>]
            nested == IF ~isRef THEN Returned(c)
                      ELSE IF ~parsed.ok THEN Threw("invalid path")
                      ELSE IF depth >= MaxDepth THEN Threw("RangeError")
                      ELSE GetSyncWalk(root, rootMeta, parsed.segs, 1, opts, FALSE,
                                       root, rootMeta, t, depth + 1)
            mk == IF Truthy(me) THEN Prop(me, key) ELSE Undef
            child == IF IsPlainSeg(s) THEN mk
                     ELSE IF Truthy(mk) THEN Elem(mk, ix) ELSE Undef
        IN
        IF nested.st = "throw" THEN nested
        ELSE IF Truthy(child)
        THEN IF IsExpired(mk, t) THEN expired
             ELSE GetSyncWalk(nested.v, child, segs, i + 1, opts, throwWhenExpired,
                              root, rootMeta, t, depth)
        ELSE GetSyncWalk(nested.v, me, segs, i + 1, opts, throwWhenExpired,
                         root, rootMeta, t, depth)

\* getSync(path, options, throwWhenExpired)
getSync(d, m, path, opts, throwWhenExpired, t) ==
  LET parsed == parsePath(path) IN
  IF ~parsed.ok THEN Threw("invalid path")
  ELSE GetSyncWalk(d, m, parsed.segs, 1, opts, throwWhenExpired, d, m, t, 1)

\* isInCache(path): getSync(path) !== undefined, false when getSync throws
isInCache(d, m, path, t) ==
  LET r == getSync(d, m, path, DefaultOpts, FALSE, t) IN
  r.st = "ok" /\ r.v # Undef

(***************************************************************************)
(* Inputs                                                                  *)
(***************************************************************************)
PathA == StringPath(<<Key("a")>>)
PathAB == StringPath(<<Key("a"), Key("b")>>)
PathK0 == ArrayPath(<<KeyIndex("k", 0)>>)
PathK7 == StringPath(<<KeyIdNum("k", "7")>>)
PathB == StringPath(<<Key("b")>>)

GetPaths == {PathA, PathAB, PathK0, PathK7}

ValStr == Str("v")
ValZero == Num("0")
ValObj == Obj("b" :> Str("w"))
ValObjZero == Obj("b" :> Num("0"))
ValId7 == Obj((idAttr :> Num("7")) @@ ("b" :> Str("w")))
ValId9 == Obj((idAttr :> Num("9")) @@ ("b" :> Str("w")))
ValRefB == Obj(referencedPathAttr :> Str("b"))

\* put(path, value) as the callers of the model issue it
PutInputs ==
  {<<PathA, ValStr>>, <<PathA, ValZero>>, <<PathA, ValObj>>, <<PathA, ValRefB>>,
   <<PathAB, ValStr>>, <<PathB, ValStr>>, <<PathK0, ValStr>>,
   <<PathK7, ValId7>>, <<PathK7, ValId9>>}
BackendValues == {ValStr, ValZero, ValObj, ValObjZero}
Modes == {CALL_BACKEND_WHEN_EXPIRED, FORCE_BACKEND_CALL, DO_NOT_CALL_BACKEND}

(***************************************************************************)
(* The cache as a state machine                                            *)
(***************************************************************************)
NoOp == [op |-> "none"]

Init ==
  /\ cacheData = EmptyObj
  /\ cacheMetadata = EmptyObj
  /\ listeners = <<>>
  /\ now = 0
  /\ calls = <<>>
  /\ last = NoOp
  /\ ops = 0

\* `last` without the trees and the operation before it
Strip(r) ==
  CASE r.op = "get" -> [r EXCEPT !.prev = NoOp, !.preData = Undef, !.preMeta = Undef]
    [] r.op = "put" -> [r EXCEPT !.preData = Undef, !.preMeta = Undef]
    [] OTHER -> r

\* What a finished get leaves in `last`: the call (path, mode, the operation
\* before it, the trees and the time it started with), the paths fetchFunc
\* was called with, what the backend answered, whether a put made for this
\* call changed the trees, and how the promise settled
GetRecord(h, res) ==
  [op |-> "get", path |-> h.path, mode |-> h.mode, prev |-> h.prev,
   preData |-> h.preData, preMeta |-> h.preMeta, t0 |-> h.t0,
   fetched |-> h.fetched, results |-> h.results, wrote |-> h.wrote,
   backendRejected |-> res.k = "reject" /\ res.why = "backend",
   outcome |-> CASE res.k = "done" -> "resolved"
                 [] res.k = "reject" -> "rejected"
                 [] OTHER -> "never settles",
   v |-> IF res.k = "done" THEN res.v ELSE Undef,
   why |-> IF res.k = "reject" THEN res.why ELSE ""]

\* A call either goes on waiting for the backend or finishes
Settle(h, res, others) ==
  IF res.k = "fetch"
  THEN /\ calls' = Append(others,
                     [stack |-> res.stack,
                      h |-> [h EXCEPT !.fetched = Append(h.fetched,
                                          res.stack[Len(res.stack)].fetch)]])
       /\ last' = [op |-> "get waits", path |-> h.path, mode |-> h.mode]
  ELSE /\ calls' = others
       /\ last' = GetRecord(h, res)

\* put(path, value) as a caller's operation
Put(path, value) ==
  /\ ops < MaxOps
  /\ LET r == put(cacheData, cacheMetadata, listeners, path, value, DefaultOpts, now) IN
     /\ cacheData' = r.d
     /\ cacheMetadata' = r.m
     /\ last' = [op |-> "put", path |-> path, value |-> value, st |-> r.st, val |-> r.val,
                 notified |-> r.notified, preData |-> cacheData, preMeta |-> cacheMetadata]
  /\ ops' = ops + 1
  /\ UNCHANGED <<listeners, now, calls>>

\* get(path, {callBackend: mode}) up to its first call of fetchFunc
Get(path, mode) ==
  /\ ops < MaxOps
  /\ Len(calls) < MaxCalls
  /\ LET h == [path |-> path, mode |-> mode,
               prev |-> IF last.op \in {"put", "get"} /\ last.path = path
                        THEN Strip(last) ELSE NoOp,
               preData |-> cacheData, preMeta |-> cacheMetadata, t0 |-> now,
               fetched |-> <<>>, results |-> <<>>, wrote |-> FALSE]
         opts == [DefaultOpts EXCEPT !.callBackend = mode]
         parsed == parsePath(path)
     IN IF ~parsed.ok THEN Settle(h, Rejected("invalid path"), calls)
        ELSE Settle(h, Run(<<>>, Exec(Frame(parsed.segs, opts, cacheData), "P0",
                                      cacheMetadata, now),
                           cacheData, cacheMetadata, now), calls)
  /\ ops' = ops + 1
  /\ UNCHANGED <<cacheData, cacheMetadata, listeners, now>>

\* How the promise of fetchFunc settles
Resolved(v) == [ok |-> TRUE, v |-> v]
BackendRejected == [ok |-> FALSE, v |-> Undef]

\* A handler attached with finally instead of then: it also runs when the
\* promise rejects, and puts undefined
fetchFinally(d, m, ls, path, settled, t) ==
  LET r == put(d, m, ls, path, settled.v, DefaultOpts, t)
  IN [d |-> r.d, m |-> r.m,
      res |-> IF ~settled.ok THEN Rejected("backend")
              ELSE IF r.st = "ok" THEN Done(r.val) ELSE Rejected("put threw")]

\* A handler that drops the result when the cache already holds a value at
\* the path
fetchThenIfAbsent(d, m, ls, path, settled, t) ==
  IF settled.ok /\ getSync(d, m, path, DefaultOpts, FALSE, t).v = Undef
  THEN LET r == put(d, m, ls, path, settled.v, DefaultOpts, t)
       IN [d |-> r.d, m |-> r.m,
           res |-> IF r.st = "ok" THEN Done(r.val) ELSE Rejected("put threw")]
  ELSE IF settled.ok THEN [d |-> d, m |-> m, res |-> Done(settled.v)]
  ELSE [d |-> d, m |-> m, res |-> Rejected("backend")]

\* opts.fetchFunc(path).then((res) => { this.put(path, res); return res }):
\* the handler runs only when the promise resolves; a rejection passes through
fetchThen(d, m, ls, path, settled, t) ==
  IF settled.ok
  THEN LET r == put(d, m, ls, path, settled.v, DefaultOpts, t)
       IN [d |-> r.d, m |-> r.m,
           res |-> IF r.st = "ok" THEN Done(r.val) ELSE Rejected("put threw")]
  ELSE [d |-> d, m |-> m, res |-> Rejected("backend")]

\* The record of a call after its backend call settled and the handler returned r
AfterFetch(h, r, settled) ==
  [h EXCEPT !.results = IF settled.ok THEN Append(@, settled.v) ELSE @,
            !.wrote = @ \/ r.d # cacheData \/ r.m # cacheMetadata]

\* The frames of a call go on with what the handler returned: a rejection
\* rejects the call, the final fetchIfExpired returns its value, and an
\* expiry check inside the loop assigns it to cacheElem
Continue(stack, r) ==
  IF r.res.k = "reject" THEN r.res
  ELSE Run(SubSeq(stack, 1, Len(stack) - 1),
           IF stack[Len(stack)].at = "final" THEN r.res
           ELSE Exec([stack[Len(stack)] EXCEPT !.ce = r.res.v, !.fetch = Undef],
                     "P2", r.m, now),
           r.d, r.m, now)

\* Call `call` resumes after the handler of its backend call returned r
Resume(call, others, r, settled) ==
  /\ cacheData' = r.d
  /\ cacheMetadata' = r.m
  /\ Settle(AfterFetch(call.h, r, settled), Continue(call.stack, r), others)

\* The promise of fetchFunc settles for call c: the then-handler runs, and
\* the frame that awaits it goes on with what it returns
BackendSettle(c, settled) ==
  /\ c \in 1..Len(calls)
  /\ Resume(calls[c],
            SubSeq(calls, 1, c - 1) \o SubSeq(calls, c + 1, Len(calls)),
            fetchThen(cacheData, cacheMetadata, listeners, FetchPath(calls[c]), settled, now),
            settled)
  /\ UNCHANGED <<listeners, now, ops>>

\* getSync(path, {}, throwWhenExpired) as a caller's operation
GetSync(path, throwWhenExpired) ==
  /\ ops < MaxOps
  /\ last' = [op |-> "getSync", path |-> path, throwWhenExpired |-> throwWhenExpired,
              r |-> getSync(cacheData, cacheMetadata, path, DefaultOpts, throwWhenExpired, now)]
  /\ ops' = ops + 1
  /\ UNCHANGED <<cacheData, cacheMetadata, listeners, now, calls>>

\* An isInCache that refreshes what it finds: the value is put again
IsInCacheRefreshing(path) ==
  /\ ops < MaxOps
  /\ LET r == getSync(cacheData, cacheMetadata, path, DefaultOpts, FALSE, now)
         hit == r.st = "ok" /\ r.v # Undef
         w == put(cacheData, cacheMetadata, <<>>, path, r.v, DefaultOpts, now)
     IN /\ last' = [op |-> "isInCache", path |-> path, r |-> hit]
        /\ cacheData' = IF hit THEN w.d ELSE cacheData
        /\ cacheMetadata' = IF hit THEN w.m ELSE cacheMetadata
  /\ ops' = ops + 1
  /\ UNCHANGED <<listeners, now, calls>>

\* isInCache(path) as a caller's operation
IsInCache(path) ==
  /\ ops < MaxOps
  /\ last' = [op |-> "isInCache", path |-> path,
              r |-> isInCache(cacheData, cacheMetadata, path, now)]
  /\ ops' = ops + 1
  /\ UNCHANGED <<cacheData, cacheMetadata, listeners, now, calls>>

\* subscribe(path, onPutFunc, exact); an empty path subscribes to every put
Subscribe(path, exact) ==
  /\ ops < MaxOps
  /\ listeners = <<>>
  /\ LET parsed == IF path = StringPath(<<>>) THEN [ok |-> TRUE, segs |-> <<>>]
                   ELSE parsePath(path)
     IN IF parsed.ok
        THEN /\ listeners' = Append(listeners, [listenerId |-> Len(listeners),
                                                path |-> parsed.segs, exact |-> exact])
             /\ last' = [op |-> "subscribe", st |-> "ok"]
        ELSE /\ listeners' = listeners
             /\ last' = [op |-> "subscribe", st |-> "throw"]
  /\ ops' = ops + 1
  /\ UNCHANGED <<cacheData, cacheMetadata, now, calls>>

\* Time passes (while there is an operation left to see it)
Tick ==
  /\ now < MaxNow
  /\ ops < MaxOps
  /\ now' = now + 1
  /\ last' = NoOp
  /\ UNCHANGED <<cacheData, cacheMetadata, listeners, calls, ops>>

Next ==
  \/ \E in \in PutInputs : Put(in[1], in[2])
  \/ \E p \in GetPaths, mode \in Modes : Get(p, mode)
  \/ \E c \in 1..Len(calls), v \in BackendValues : BackendSettle(c, Resolved(v))
  \/ \E c \in 1..Len(calls) : BackendSettle(c, BackendRejected)
  \/ \E p \in GetPaths, throwWhenExpired \in BOOLEAN : GetSync(p, throwWhenExpired)
  \/ \E p \in GetPaths : IsInCache(p)
  \/ Subscribe(StringPath(<<>>), FALSE)
  \/ Tick

Spec == Init /\ [][Next]_vars

(***************************************************************************)
(* delete and deleteExpiredElems                                           *)
(***************************************************************************)
\* delete obj[key]
RemoveProp(x, key) ==
  IF IsContainer(x) THEN [x EXCEPT !.f = [k \in DOMAIN x.f \ {key} |-> x.f[k]]] ELSE x

\* The orders in which a for-in loop may visit the keys S: the order in which
\* the keys were inserted, which the trees of the model do not record
Orderings(S) ==
  {s \in [1..Cardinality(S) -> S] : \A i, j \in 1..Cardinality(S) : s[i] = s[j] => i = j}

\* The keys of f as for-in visits them: in the order ord as far as it names them
InKeys(f, ord) ==
  SelectSeq(ord, LAMBDA k : k \in DOMAIN f)
    \o (CHOOSE s \in Orderings(DOMAIN f \ {ord[j] : j \in 1..Len(ord)}) : TRUE)

\* elem and metadata as deleteExpiredElemsRec leaves them, and whether it threw
DelResult(elem, metadata, st) == [e |-> elem, m |-> metadata, st |-> st]

RECURSIVE deleteExpiredElemsRec(_, _, _, _)
RECURSIVE DelArrayFrom(_, _, _, _, _)
RECURSIVE DelKeysFrom(_, _, _, _, _)

\* metadata[i] after the recursion worked on childMetadata = metadata[i]
DelArrayBack(elem, metadata, i, r, ord, t) ==
  IF r.st = "throw"
  THEN DelResult(SetElem(elem, i, r.e),
                 IF IsContainer(metadata) THEN SetElem(metadata, i, r.m) ELSE metadata,
                 "throw")
  ELSE DelArrayFrom(SetElem(elem, i, r.e),
                    IF IsContainer(metadata) THEN SetElem(metadata, i, r.m) ELSE metadata,
                    i + 1, ord, t)

\* The body of the array loop: childMetadata.ttl throws on undefined
DelArrayChild(elem, metadata, i, childMetadata, ord, t) ==
  IF IsNullish(childMetadata) THEN DelResult(elem, metadata, "throw")
  ELSE IF IsExpired(childMetadata, t)
  THEN DelArrayFrom(SetElem(elem, i, Undef), SetElem(metadata, i, Undef), i + 1, ord, t)
  ELSE DelArrayBack(elem, metadata, i,
                    deleteExpiredElemsRec(Elem(elem, i), childMetadata, ord, t), ord, t)

\* for (let i = 0; i < elem.length; i++) from index i on
DelArrayFrom(elem, metadata, i, ord, t) ==
  IF i >= Len(elem.e) THEN DelResult(elem, metadata, "ok")
  ELSE DelArrayChild(elem, metadata, i,
                     IF Truthy(metadata) THEN Elem(metadata, i) ELSE EmptyObj, ord, t)

\* metadata[key] after the recursion worked on childMetadata: on the node
\* itself when there is one, on a fresh {} otherwise
DelKeyBack(elem, metadata, keys, r, ord, t) ==
  IF r.st = "throw"
  THEN DelResult(SetProp(elem, Head(keys), r.e),
                 IF Truthy(Prop(metadata, Head(keys)))
                 THEN SetProp(metadata, Head(keys), r.m) ELSE metadata,
                 "throw")
  ELSE DelKeysFrom(SetProp(elem, Head(keys), r.e),
                   IF Truthy(Prop(metadata, Head(keys)))
                   THEN SetProp(metadata, Head(keys), r.m) ELSE metadata,
                   Tail(keys), ord, t)

\* The body of the for-in loop
DelKeyChild(elem, metadata, keys, childMetadata, ord, t) ==
  IF IsExpired(childMetadata, t)
  THEN DelKeysFrom(RemoveProp(elem, Head(keys)), RemoveProp(metadata, Head(keys)),
                   Tail(keys), ord, t)
  ELSE DelKeyBack(elem, metadata, keys,
                  deleteExpiredElemsRec(Prop(elem, Head(keys)), childMetadata, ord, t),
                  ord, t)

\* for (const key in elem) over the keys still to visit
DelKeysFrom(elem, metadata, keys, ord, t) ==
  IF keys = <<>> THEN DelResult(elem, metadata, "ok")
  ELSE IF IsNullish(metadata) THEN DelResult(elem, metadata, "throw")
  ELSE DelKeyChild(elem, metadata, keys,
                   IF Truthy(Prop(metadata, Head(keys)))
                   THEN Prop(metadata, Head(keys)) ELSE EmptyObj, ord, t)

\* deleteExpiredElemsRec(elem, metadata) at time t
deleteExpiredElemsRec(elem, metadata, ord, t) ==
  IF ~Truthy(elem) THEN DelResult(elem, metadata, "ok")
  ELSE IF elem.t = "array" THEN DelArrayFrom(elem, metadata, 0, ord, t)
  ELSE IF elem.t = "object" THEN DelKeysFrom(elem, metadata, InKeys(elem.f, ord), ord, t)
  ELSE DelResult(elem, metadata, "ok")

\* delete(path) as a caller's operation: this.put(path, undefined, -1), where
\* spreading -1 into the options changes none
Delete(path) ==
  /\ ops < MaxOps
  /\ LET r == put(cacheData, cacheMetadata, listeners, path, Undef, DefaultOpts, now) IN
     /\ cacheData' = r.d
     /\ cacheMetadata' = r.m
     /\ last' = [op |-> "delete", path |-> path, st |-> r.st, notified |-> r.notified,
                 preData |-> cacheData, preMeta |-> cacheMetadata]
  /\ ops' = ops + 1
  /\ UNCHANGED <<listeners, now, calls>>

\* deleteExpiredElems() as a caller's operation
DeleteExpiredElems(ord) ==
  /\ ops < MaxOps
  /\ LET r == deleteExpiredElemsRec(cacheData, cacheMetadata, ord, now) IN
     /\ cacheData' = r.e
     /\ cacheMetadata' = r.m
     /\ last' = [op |-> "deleteExpiredElems", st |-> r.st, t0 |-> now,
                 preData |-> cacheData, preMeta |-> cacheMetadata]
  /\ ops' = ops + 1
  /\ UNCHANGED <<listeners, now, calls>>

\* Paths and values of arrays: an append, an index that leaves a hole, the
\* array itself
PathKAppend == StringPath(<<KeyAppend("k")>>)
PathK1 == StringPath(<<KeyIndex("k", 1)>>)
PathK == StringPath(<<Key("k")>>)
ValArr == Arr(<<Num("0"), Str("x")>>)

PutInputsD ==
  {<<PathA, ValStr>>, <<PathKAppend, ValStr>>, <<PathKAppend, ValZero>>, <<PathK, ValArr>>,
   <<PathK1, ValStr>>, <<PathK7, ValId7>>}
DeletePaths == {PathA, PathK1, PathK7}
GetPathsD == {PathK, PathK0, PathK1}

\* The cache under puts, appends, deletes, pruning and default-mode gets
NextD ==
  \/ \E in \in PutInputsD : Put(in[1], in[2])
  \/ \E p \in DeletePaths : Delete(p)
  \/ \E ord \in Orderings(DOMAIN cacheData.f) : DeleteExpiredElems(ord)
  \/ \E p \in GetPathsD : Get(p, CALL_BACKEND_WHEN_EXPIRED)
  \/ \E c \in 1..Len(calls), v \in BackendValues : BackendSettle(c, Resolved(v))
  \/ \E c \in 1..Len(calls) : BackendSettle(c, BackendRejected)
  \/ Tick

SpecD == Init /\ [][NextD]_vars

(***************************************************************************)
(* populate.  elem is a node of the data tree (the caller passes what      *)
(* getCacheData or get handed out, which is the cache's own object), named *)
(* by its position: the steps from the root, a key or an array index each. *)
(* The recursion of populate is a list of the children still to visit,     *)
(* each with whether its referencedPathAttr is tested before it is         *)
(* descended into.                                                         *)
(***************************************************************************)
KeyStep(k) == [key |-> k, ix |-> -1]
IndexStep(i) == [key |-> "", ix |-> i]

RECURSIVE NodeAt(_, _)
\* The node of tree x at position pos
NodeAt(x, pos) ==
  IF pos = <<>> THEN x
  ELSE NodeAt(IF Head(pos).ix < 0 THEN Prop(x, Head(pos).key) ELSE Elem(x, Head(pos).ix),
              Tail(pos))

RECURSIVE SetNode(_, _, _)
\* Tree x after an assignment of v to the node at position pos
SetNode(x, pos, v) ==
  IF pos = <<>> THEN v
  ELSE IF Head(pos).ix < 0
  THEN SetProp(x, Head(pos).key, SetNode(Prop(x, Head(pos).key), Tail(pos), v))
  ELSE SetElem(x, Head(pos).ix, SetNode(Elem(x, Head(pos).ix), Tail(pos), v))

\* The children the loops of populate(c, refProp) visit, c at position pos:
\* every element of an array is tested, of an object the property refProp
Children(c, pos, refProp) ==
  CASE c.t = "array" ->
         [j \in 1..Len(c.e) |-> [pos |-> Append(pos, IndexStep(j - 1)), test |-> TRUE]]
    [] c.t = "object" ->
         [j \in 1..Len(InKeys(c.f, <<>>)) |->
            [pos |-> Append(pos, KeyStep(InKeys(c.f, <<>>)[j])),
             test |-> InKeys(c.f, <<>>)[j] = refProp]]
    [] OTHER -> <<>>

\* What running populate ends in, with the data tree as it has left it
PopDone(d) == [k |-> "done", d |-> d]
PopRejected(d, why) == [k |-> "reject", d |-> d, why |-> why]
PopWaits(d, items, stack) == [k |-> "fetch", d |-> d, items |-> items, stack |-> stack]
PopNever(d) == [k |-> "diverge", d |-> d]

\* this.get(refValue, opts) up to its first call of fetchFunc
PopGet(d, m, refValue, opts, t) ==
  IF ~parsePath(RefPath(refValue)).ok THEN Rejected("invalid path")
  ELSE Run(<<>>, Exec(Frame(parsePath(RefPath(refValue)).segs, opts, d), "P0", m, t), d, m, t)

RECURSIVE PopRun(_, _, _, _, _, _)

\* elem[key] = await this.get(...): the get ended in g
PopAssign(d, m, items, refProp, opts, t, g) ==
  CASE g.k = "done" ->
         PopRun(SetNode(d, Head(items).pos, g.v), m, Tail(items), refProp, opts, t)
    [] g.k = "reject" -> PopRejected(d, g.why)
    [] g.k = "fetch" -> PopWaits(d, items, g.stack)
    [] OTHER -> PopNever(d)

\* One child c: the test of its referencedPathAttr (a TypeError on undefined
\* and null), then the get of the reference or the recursion into c
PopVisit(d, m, items, c, refProp, opts, t) ==
  IF Head(items).test /\ IsNullish(c) THEN PopRejected(d, "TypeError")
  ELSE IF Head(items).test /\ Truthy(Prop(c, referencedPathAttr))
  THEN PopAssign(d, m, items, refProp, opts, t,
                 PopGet(d, m, Prop(c, referencedPathAttr), opts, t))
  ELSE PopRun(d, m, Children(c, Head(items).pos, refProp) \o Tail(items), refProp, opts, t)

\* populate from the first child still to visit until it resolves, rejects
\* or waits for the backend
PopRun(d, m, items, refProp, opts, t) ==
  IF items = <<>> THEN PopDone(d)
  ELSE PopVisit(d, m, items, NodeAt(d, Head(items).pos), refProp, opts, t)

\* A call of populate waits for the backend
PopulatePending == \E c \in 1..Len(calls) : "pop" \in DOMAIN calls[c]

\* What a finished populate leaves in `last`; v is elem, which it resolves to
PopRecord(h, res) ==
  [op |-> "populate", pos |-> h.pos, refProp |-> h.refProp, prev |-> h.prev,
   preData |-> h.preData, preMeta |-> h.preMeta, t0 |-> h.t0,
   fetched |-> h.fetched, results |-> h.results,
   outcome |-> CASE res.k = "done" -> "resolved"
                 [] res.k = "reject" -> "rejected"
                 [] OTHER -> "never settles",
   v |-> IF res.k = "done" THEN NodeAt(res.d, h.pos) ELSE Undef]

\* A call of populate either goes on waiting for the backend or finishes
PopSettle(h, res, others) ==
  /\ cacheData' = res.d
  /\ IF res.k = "fetch"
     THEN /\ calls' = Append(others,
                        [stack |-> res.stack,
                         h |-> [h EXCEPT !.fetched = Append(h.fetched,
                                             res.stack[Len(res.stack)].fetch)],
                         pop |-> [items |-> res.items]])
          /\ last' = [op |-> "populate waits", pos |-> h.pos]
     ELSE /\ calls' = others
          /\ last' = PopRecord(h, res)

\* populate(elem, refProp) as a caller's operation, elem the node at pos
Populate(pos, refProp) ==
  /\ Len(calls) < MaxCalls
  /\ Truthy(NodeAt(cacheData, pos))
  /\ PopSettle([pos |-> pos, refProp |-> refProp,
                prev |-> IF last.op = "populate" /\ last.pos = pos
                         THEN [op |-> "populate", outcome |-> last.outcome, v |-> last.v,
                               fetched |-> last.fetched, preData |-> last.preData,
                               preMeta |-> last.preMeta, t0 |-> last.t0]
                         ELSE NoOp,
                preData |-> cacheData, preMeta |-> cacheMetadata, t0 |-> now,
                fetched |-> <<>>, results |-> <<>>, wrote |-> FALSE],
               PopRun(cacheData, cacheMetadata,
                      Children(NodeAt(cacheData, pos), pos, refProp),
                      refProp, DefaultOpts, now),
               calls)
  /\ UNCHANGED <<cacheMetadata, listeners, now, ops>>

\* A waiting populate resumes after the handler of its backend call returned r
PopResume(call, others, r, settled) ==
  /\ cacheMetadata' = r.m
  /\ PopSettle(AfterFetch(call.h, r, settled),
               PopAssign(r.d, r.m, call.pop.items, call.h.refProp, DefaultOpts, now,
                         Continue(call.stack, r)),
               others)

\* The promise of fetchFunc settles for the get that populate call c awaits
PopulateSettle(c, settled) ==
  /\ c \in 1..Len(calls)
  /\ "pop" \in DOMAIN calls[c]
  /\ PopResume(calls[c],
               SubSeq(calls, 1, c - 1) \o SubSeq(calls, c + 1, Len(calls)),
               fetchThen(cacheData, cacheMetadata, listeners, FetchPath(calls[c]), settled, now),
               settled)
  /\ UNCHANGED <<listeners, now, ops>>

\* A structure with a reference under key c, and the paths into it
PathP == StringPath(<<Key("p")>>)
ValHolder == Obj("c" :> ValRefB)

PutInputsP ==
  {<<PathB, ValStr>>, <<PathB, ValZero>>, <<PathB, ValObj>>, <<PathA, ValRefB>>,
   <<PathP, ValHolder>>}
GetPathsP == {PathA, PathAB}

\* The cache under puts of references and their targets, default-mode gets
\* and populate; the callers put nothing while a populate waits
NextP ==
  \/ \E in \in PutInputsP : ~PopulatePending /\ Put(in[1], in[2])
  \/ \E p \in GetPathsP : Get(p, CALL_BACKEND_WHEN_EXPIRED)
  \/ Populate(<<KeyStep("p")>>, "c")
  \/ \E c \in 1..Len(calls), v \in BackendValues :
       "pop" \notin DOMAIN calls[c] /\ BackendSettle(c, Resolved(v))
  \/ \E c \in 1..Len(calls) :
       "pop" \notin DOMAIN calls[c] /\ BackendSettle(c, BackendRejected)
  \/ \E c \in 1..Len(calls), v \in BackendValues : PopulateSettle(c, Resolved(v))
  \/ \E c \in 1..Len(calls) : PopulateSettle(c, BackendRejected)
  \/ Tick

SpecP == Init /\ [][NextP]_vars

(***************************************************************************)
(* put with options: merge, and the same identity written in several forms *)
(***************************************************************************)
\* put(path, value, {merge: merge}) as a caller's operation; `last` keeps
\* the put before it when no other operation came in between
PutM(path, value, merge) ==
  /\ ops < MaxOps
  /\ LET r == put(cacheData, cacheMetadata, listeners, path, value,
                  [DefaultOpts EXCEPT !.merge = merge], now) IN
     /\ cacheData' = r.d
     /\ cacheMetadata' = r.m
     /\ last' = [op |-> "put", path |-> path, value |-> value, merge |-> merge,
                 st |-> r.st, val |-> r.val, notified |-> r.notified,
                 preData |-> cacheData, preMeta |-> cacheMetadata, t0 |-> now,
                 prev |-> IF last.op = "put"
                          THEN [op |-> "put", path |-> last.path, value |-> last.value,
                                merge |-> last.merge, st |-> last.st]
                          ELSE NoOp]
  /\ ops' = ops + 1
  /\ UNCHANGED <<listeners, now, calls>>

\* The identity 7 of key k in object form with a string id, and values whose
\* properties overlap
PathK7Str == ObjectPath(KeyObj("k", Str("7")))
ValBC == Obj(("b" :> Str("x")) @@ ("c" :> Str("y")))
ValId7C == Obj((idAttr :> Num("7")) @@ ("c" :> Str("y")))
ValId7Str == Obj((idAttr :> Str("7")) @@ ("c" :> Str("y")))

PutInputsM ==
  {<<PathA, ValObj>>, <<PathA, ValBC>>, <<PathA, ValStr>>,
   <<PathK0, ValObj>>, <<PathK0, ValBC>>,
   <<PathK7, ValId7>>, <<PathK7, ValId7C>>, <<PathK7, ValId7Str>>,
   <<PathK7Str, ValId7Str>>, <<PathKAppend, ValStr>>}

\* The cache under puts with and without merge
NextM ==
  \/ \E in \in PutInputsM, merge \in BOOLEAN : PutM(in[1], in[2], merge)
  \/ Tick

SpecM == Init /\ [][NextM]_vars

(***************************************************************************)
(* What the claims speak about                                             *)
(***************************************************************************)
RECURSIVE HasMarker(_)
\* A reference marker ({$refPath: ...}) at x or anywhere below it
HasMarker(x) ==
  /\ IsContainer(x)
  /\ \/ Truthy(Prop(x, referencedPathAttr))
     \/ \E k \in DOMAIN x.f : HasMarker(x.f[k])
     \/ \E j \in DOMAIN x.e : HasMarker(x.e[j])

\* The path as fetchFunc receives it
Normalized(path) == getSubPath(parsePath(path).segs, Len(parsePath(path).segs))

\* The last element of a sequence
Final(seq) == seq[Len(seq)]

RECURSIVE ValueUnder(_, _, _)
\* What the data tree holds under node x along segments i.. of segs:
\* undefined when a step leaves the tree
ValueUnder(x, segs, i) ==
  IF i > Len(segs) THEN x
  ELSE IF ~IsContainer(x) THEN Undef
  ELSE
    LET s == segs[i]
        up == Prop(x, s.key)
        found == IF IsIdSeg(s) /\ up.t = "array" THEN FindIndexBy(up, s.id, FALSE)
                 ELSE [st |-> "none", i |-> 0]
        c == CASE IsPlainSeg(s) -> up
               [] IsIndexSeg(s) /\ IsContainer(up) -> Elem(up, s.index.n)
               [] IsIdSeg(s) /\ found.st = "found" -> Elem(up, found.i)
               [] OTHER -> Undef
    IN ValueUnder(c, segs, i + 1)

\* What is stored at a path
StoredAt(d, path) == ValueUnder(d, parsePath(path).segs, 1)

\* Paths of plain keys only, and the metadata node of their first n segments
AllPlain(path) ==
  /\ parsePath(path).ok
  /\ \A j \in 1..Len(parsePath(path).segs) : IsPlainSeg(parsePath(path).segs[j])
PlainSteps(path, n) ==
  [j \in 1..n |-> [key |-> parsePath(path).segs[j].key, index |-> Undef]]
ExpiredAt(m, path, n, t) == IsExpired(MetaAt(m, PlainSteps(path, n)), t)

RECURSIVE AnyExpired(_, _)
\* Some node of metadata tree x has a ttl in the past
AnyExpired(x, t) ==
  /\ IsContainer(x)
  /\ \/ IsExpired(x, t)
     \/ \E k \in DOMAIN x.f : AnyExpired(x.f[k], t)
     \/ \E j \in DOMAIN x.e : AnyExpired(x.e[j], t)

\* put(path, value) ends in an identity segment and value carries another id
IdMismatch(path, value) ==
  LET parsed == parsePath(path) IN
  /\ parsed.ok
  /\ parsed.segs # <<>>
  /\ IsIdSeg(Final(parsed.segs))
  /\ TypeOf(value) = "object"
  /\ Truthy(value)
  /\ Truthy(Prop(value, idAttr))
  /\ ~LooseEq(Prop(value, idAttr), Final(parsed.segs).id)

RECURSIVE MetaUnder(_, _, _, _, _)
\* The metadata node of segments i..n of segs below data node dx and metadata
\* node mx (an identity segment is located in the data array, as get does):
\* undefined when there is none
MetaUnder(dx, mx, segs, i, n) ==
  IF i > n THEN mx
  ELSE IF ~IsContainer(mx) THEN Undef
  ELSE
    LET s == segs[i]
        dk == IF IsContainer(dx) THEN Prop(dx, s.key) ELSE Undef
        mk == Prop(mx, s.key)
        found == IF IsIdSeg(s) /\ dk.t = "array" THEN FindIndexBy(dk, s.id, FALSE)
                 ELSE [st |-> "none", i |-> 0]
    IN CASE IsPlainSeg(s) -> MetaUnder(dk, mk, segs, i + 1, n)
         [] IsIndexSeg(s) /\ IsContainer(mk) ->
              MetaUnder(IF IsContainer(dk) THEN Elem(dk, s.index.n) ELSE Undef,
                        Elem(mk, s.index.n), segs, i + 1, n)
         [] IsIdSeg(s) /\ found.st = "found" /\ IsContainer(mk) ->
              MetaUnder(Elem(dk, found.i), Elem(mk, found.i), segs, i + 1, n)
         [] OTHER -> Undef

\* The TTL of the metadata node of some prefix of the path is in the past
PathExpired(d, m, path, t) ==
  \E n \in 1..Len(parsePath(path).segs) :
    IsExpired(MetaUnder(d, m, parsePath(path).segs, 1, n), t)

\* A get in default mode has finished
DefaultGetDone == last.op = "get" /\ last.mode = CALL_BACKEND_WHEN_EXPIRED

(***************************************************************************)
(* C1: round trip.  put(P, V) that put accepted, with no reference marker  *)
(* in V (nor elsewhere in the cache), followed immediately by a            *)
(* default-mode get(P): the get resolves to V (with the _id that put adds) *)
(* and calls the backend not once.                                         *)
(***************************************************************************)
C1_RoundTrip ==
  (/\ DefaultGetDone
   /\ last.prev.op = "put"
   /\ last.prev.st = "ok"
   /\ ~HasMarker(last.preData))
  => (/\ last.outcome = "resolved"
      /\ last.v = last.prev.val
      /\ last.fetched = <<>>)

(***************************************************************************)
(* C2: a default-mode get(P) of a parseable path at which nothing is       *)
(* cached (here: the cache is empty) calls the backend exactly once, with  *)
(* the normalized P, and resolves to what the backend returned; it fails   *)
(* only when the backend rejected.                                         *)
(***************************************************************************)
C2_AbsentFetchesOnce ==
  (/\ DefaultGetDone
   /\ last.preData = EmptyObj
   /\ last.preMeta = EmptyObj)
  => (/\ last.fetched = <<Normalized(last.path)>>
      /\ \/ last.backendRejected
         \/ /\ last.outcome = "resolved"
            /\ last.results = <<last.v>>)

(***************************************************************************)
(* C3: read-through.  A default-mode get(P) obtained R from the backend    *)
(* with one call for P; the default-mode get(P) that follows immediately   *)
(* (no time has passed, no reference marker is in the cache) resolves to R *)
(* without a backend call.                                                 *)
(***************************************************************************)
C3_ReadThrough ==
  (/\ DefaultGetDone
   /\ last.prev.op = "get"
   /\ last.prev.mode = CALL_BACKEND_WHEN_EXPIRED
   /\ last.prev.outcome = "resolved"
   /\ last.prev.fetched = <<Normalized(last.path)>>
   /\ ~HasMarker(last.preData))
  => (/\ last.outcome = "resolved"
      /\ last.v = Final(last.prev.results)
      /\ last.fetched = <<>>)
(***************************************************************************)
(* C4: expired leaf.  The TTL of the node at P (plain keys) is in the      *)
(* past, no ancestor's is, no reference marker is in the cache and the     *)
(* backend does not reject: a default-mode get(P) calls the backend        *)
(* exactly once, with P, resolves to the backend's value, and afterwards   *)
(* that value is stored at P with a TTL that is not in the past.           *)
(***************************************************************************)
C4_ExpiredLeaf ==
  LET n == Len(parsePath(last.path).segs) IN
  (/\ DefaultGetDone
   /\ AllPlain(last.path)
   /\ ExpiredAt(last.preMeta, last.path, n, last.t0)
   /\ \A j \in 1..(n - 1) : ~ExpiredAt(last.preMeta, last.path, j, last.t0)
   /\ ~HasMarker(last.preData)
   /\ ~last.backendRejected)
  => (/\ last.fetched = <<Normalized(last.path)>>
      /\ last.outcome = "resolved"
      /\ last.results = <<last.v>>
      /\ StoredAt(cacheData, last.path) = last.v
      /\ ~ExpiredAt(cacheMetadata, last.path, n, now))

(***************************************************************************)
(* C5: ancestor-expiry cascade.  P = A.x (plain keys), the TTL of A is in  *)
(* the past, no reference marker is in the cache and the backend's value   *)
(* for A contains x: a default-mode get(P) calls the backend exactly once, *)
(* with A; the backend's value is then cached at A with a TTL not in the   *)
(* past and get resolves to its x.                                         *)
(***************************************************************************)
C5_AncestorCascade ==
  LET segs == parsePath(last.path).segs IN
  (/\ DefaultGetDone
   /\ AllPlain(last.path)
   /\ Len(segs) = 2
   /\ ExpiredAt(last.preMeta, last.path, 1, last.t0)
   /\ Truthy(Prop(last.preData, segs[1].key))
   /\ ~HasMarker(last.preData)
   /\ last.results # <<>>
   /\ Prop(last.results[1], segs[2].key) \notin {Undef, Throw}
   /\ ~last.backendRejected)
  => (/\ last.fetched = <<getSubPath(segs, 1)>>
      /\ last.outcome = "resolved"
      /\ last.v = Prop(last.results[1], segs[2].key)
      /\ Prop(cacheData, segs[1].key) = last.results[1]
      /\ ~ExpiredAt(cacheMetadata, last.path, 1, now))

(***************************************************************************)
(* C6: force mode.  With no expired node and no reference marker in the    *)
(* cache, get(P, {callBackend: FORCE_BACKEND_CALL}) calls the backend      *)
(* exactly once, with the normalized P, whatever is cached at P; unless    *)
(* the backend rejects, it resolves to the backend's value, which is then  *)
(* stored at P.                                                            *)
(***************************************************************************)
C6_ForceMode ==
  (/\ last.op = "get"
   /\ last.mode = FORCE_BACKEND_CALL
   /\ ~AnyExpired(last.preMeta, last.t0)
   /\ ~HasMarker(last.preData))
  => (/\ last.fetched = <<Normalized(last.path)>>
      /\ \/ last.backendRejected
         \/ /\ last.outcome = "resolved"
            /\ last.results = <<last.v>>
            /\ StoredAt(cacheData, last.path) = last.v)

(***************************************************************************)
(* C8: in no-backend mode get(P) rejects when nothing is stored at P (and  *)
(* no reference marker is in the cache).                                   *)
(***************************************************************************)
C8_NoBackendRejectsAbsent ==
  (/\ last.op = "get"
   /\ last.mode = DO_NOT_CALL_BACKEND
   /\ ~HasMarker(last.preData)
   /\ StoredAt(last.preData, last.path) = Undef)
  => last.outcome = "rejected"

(***************************************************************************)
(* C10: identity mismatch.  put(P, V) with P ending in an identity segment *)
(* of id x and V carrying another id throws and leaves the cache as it     *)
(* was: the data and metadata trees are unchanged, isInCache(P) does not   *)
(* become true, and no listener is notified.                               *)
(***************************************************************************)
C10_IdMismatchLeavesCache ==
  (/\ last.op = "put"
   /\ IdMismatch(last.path, last.value))
  => (/\ last.st = "throw"
      /\ cacheData = last.preData
      /\ cacheMetadata = last.preMeta
      /\ last.notified = <<>>
      /\ (isInCache(cacheData, cacheMetadata, last.path, now)
            => isInCache(last.preData, last.preMeta, last.path, now)))

(***************************************************************************)
(* C7: get in no-backend mode, getSync and isInCache never call fetchFunc: *)
(* a finished no-backend get has made no backend call, no no-backend get   *)
(* waits for the backend, and a step of getSync or isInCache starts no     *)
(* backend call.                                                           *)
(***************************************************************************)
C7_NoBackendNeverFetches ==
  /\ [](/\ (last.op = "get" /\ last.mode = DO_NOT_CALL_BACKEND) => last.fetched = <<>>
        /\ \A c \in 1..Len(calls) : calls[c].h.mode # DO_NOT_CALL_BACKEND)
  /\ [][last'.op \in {"getSync", "isInCache"} => calls' = calls]_vars

\* A no-backend get of a reference marker whose target is expired has finished
C7_MarkerToExpiredTarget ==
  /\ last.op = "get"
  /\ last.mode = DO_NOT_CALL_BACKEND
  /\ last.path = PathA
  /\ Prop(StoredAt(last.preData, PathA), referencedPathAttr) = Str("b")
  /\ StoredAt(last.preData, PathB) # Undef
  /\ IsExpired(Prop(last.preMeta, "b"), last.t0)

(***************************************************************************)
(* C9 as stated: when a backend call of get(P) rejected, the puts made for *)
(* that get have changed neither tree (here with no reference marker in    *)
(* the cache and a backend that answers with truthy values only).          *)
(***************************************************************************)
C9_RejectedGetWroteNothing ==
  (/\ last.op = "get"
   /\ last.backendRejected
   /\ ~HasMarker(last.preData)
   /\ \A j \in 1..Len(last.results) : last.results[j] \in {ValStr, ValObj})
  => ~last.wrote

(***************************************************************************)
(* C9 amended: the step in which a backend call of get(P) rejects changes  *)
(* neither tree, and get(P) rejects with the backend's reason; what        *)
(* earlier backend calls of the same get stored (a refreshed ancestor)     *)
(* stays.                                                                  *)
(***************************************************************************)
C9_RejectedFetchWritesNothing ==
  [][(\E c \in 1..Len(calls) : BackendSettle(c, BackendRejected))
       => (/\ cacheData' = cacheData
           /\ cacheMetadata' = cacheMetadata
           /\ last'.op = "get"
           /\ last'.outcome = "rejected"
           /\ last'.why = "backend")]_vars

\* A get has rejected with the backend after an earlier fetch of it was stored
C9_RejectedAfterRefresh ==
  /\ last.op = "get"
  /\ last.backendRejected
  /\ last.wrote
  /\ ~HasMarker(last.preData)
  /\ last.results = <<ValStr>>
  /\ Len(last.fetched) = 2

(***************************************************************************)
(* C11: isInCache(P) returns true exactly when a value other than          *)
(* undefined is stored at P and no metadata node on P is expired (no       *)
(* reference marker is in the cache).                                      *)
(***************************************************************************)
C11_IsInCacheExact ==
  (/\ last.op = "isInCache"
   /\ ~HasMarker(cacheData))
  => (last.r <=> (/\ StoredAt(cacheData, last.path) # Undef
                  /\ ~PathExpired(cacheData, cacheMetadata, last.path, now)))

(***************************************************************************)
(* C12: getSync never returns a stale value.  A truthy value is stored at  *)
(* P, no reference marker is in the cache and the TTL of a metadata node   *)
(* on P is in the past: getSync(P) returns undefined, or throws the        *)
(* expired error when throwWhenExpired is set.                             *)
(***************************************************************************)
C12_GetSyncNeverStale ==
  (/\ last.op = "getSync"
   /\ ~HasMarker(cacheData)
   /\ Truthy(StoredAt(cacheData, last.path))
   /\ PathExpired(cacheData, cacheMetadata, last.path, now))
  => IF last.throwWhenExpired
     THEN last.r.st = "throw" /\ last.r.why = "expired"
     ELSE last.r = Returned(Undef)

(***************************************************************************)
(* C16: reference to an expired target.  a holds the marker {$refPath: b}, *)
(* a value is cached at b and the backend does not reject.  When the TTL   *)
(* of b is in the past and that of a is not, a default-mode get(a) calls   *)
(* the backend exactly once, with b, the response is cached at b with a    *)
(* TTL that is not in the past, and get resolves to it.  When the TTL of a *)
(* is in the past and that of b is not, the backend is called exactly      *)
(* once, with a.                                                           *)
(***************************************************************************)
C16_ExpiredTargetFetchedOnce ==
  (/\ DefaultGetDone
   /\ last.path = PathA
   /\ Prop(last.preData, "a") = ValRefB
   /\ Truthy(Prop(last.preData, "b"))
   /\ ~HasMarker(Prop(last.preData, "b"))
   /\ ~last.backendRejected)
  => (/\ (/\ ExpiredAt(last.preMeta, PathB, 1, last.t0)
          /\ ~ExpiredAt(last.preMeta, PathA, 1, last.t0))
         => (/\ last.fetched = <<Normalized(PathB)>>
             /\ last.outcome = "resolved"
             /\ last.results = <<last.v>>
             /\ StoredAt(cacheData, PathB) = last.v
             /\ ~ExpiredAt(cacheMetadata, PathB, 1, now))
      /\ (/\ ExpiredAt(last.preMeta, PathA, 1, last.t0)
          /\ ~ExpiredAt(last.preMeta, PathB, 1, last.t0))
         => last.fetched = <<Normalized(PathA)>>)

(***************************************************************************)
(* C13: delete.  A value is stored at P (a plain key, an index or an       *)
(* identity under key k): delete(P) completes without error, undefined is  *)
(* at P afterwards, an enclosing array keeps its length and its other      *)
(* elements, and isInCache(P) is false.                                    *)
(***************************************************************************)
C13_DeleteLeavesUndefined ==
  LET s == parsePath(last.path).segs[1]
      before == Prop(last.preData, s.key)
      after == Prop(cacheData, s.key)
      was == StoredAt(last.preData, last.path)
  IN
  (/\ last.op = "delete"
   /\ was # Undef)
  => (/\ last.st = "ok"
      /\ StoredAt(cacheData, last.path) = Undef
      /\ (~IsPlainSeg(s) /\ before.t = "array")
         => (/\ after.t = "array"
             /\ Len(after.e) = Len(before.e)
             /\ \A j \in 1..Len(before.e) :
                  before.e[j] # was => after.e[j] = before.e[j])
      /\ ~isInCache(cacheData, cacheMetadata, last.path, now))

(***************************************************************************)
(* C14: deleteExpiredElems completes without error; afterwards isInCache   *)
(* is false for every path with a metadata node whose TTL was in the past, *)
(* every path without one still holds its value, and an array that was not *)
(* expired keeps its length.                                               *)
(***************************************************************************)
C14_PruneExpired ==
  last.op = "deleteExpiredElems"
  => (/\ last.st = "ok"
      /\ \A p \in {PathA, PathK, PathK0, PathK1, PathK7} :
           IF PathExpired(last.preData, last.preMeta, p, last.t0)
           THEN ~isInCache(cacheData, cacheMetadata, p, now)
           ELSE StoredAt(cacheData, p) = StoredAt(last.preData, p)
      /\ (/\ Prop(last.preData, "k").t = "array"
          /\ ~PathExpired(last.preData, last.preMeta, PathK, last.t0))
         => (/\ Prop(cacheData, "k").t = "array"
             /\ Len(Prop(cacheData, "k").e) = Len(Prop(last.preData, "k").e)))

\* Key k of trees d, m holds what appends on an empty key build: an array of
\* appended values with a metadata array of as many leaf records
AppendBuilt(d, m) ==
  LET a == Prop(d, "k")
      ma == Prop(m, "k")
  IN /\ a.t = "array"
     /\ ma.t = "array"
     /\ Len(a.e) = Len(ma.e)
     /\ \A j \in 1..Len(a.e) :
          /\ a.e[j] \in {ValStr, ValZero}
          /\ IsInt(Prop(ma.e[j], "ttl"))
          /\ Prop(ma.e[j], idAttr) = Undef

(***************************************************************************)
(* C19: successive appends.  put('k[]', v) on a key that holds nothing or  *)
(* the array of earlier appends completes and leaves the earlier values    *)
(* followed by v, with a metadata array of the same length; a default-mode *)
(* get('k[i]') of an appended element that is not expired resolves to it   *)
(* without a backend call.                                                 *)
(***************************************************************************)
C19_AppendsInOrder ==
  /\ (/\ last.op = "put"
      /\ last.path = PathKAppend
      /\ \/ Prop(last.preData, "k") = Undef /\ Prop(last.preMeta, "k") = Undef
         \/ AppendBuilt(last.preData, last.preMeta))
     => (/\ last.st = "ok"
         /\ Prop(cacheData, "k") =
              Arr(Append(IF Prop(last.preData, "k") = Undef THEN <<>>
                         ELSE Prop(last.preData, "k").e, last.value))
         /\ AppendBuilt(cacheData, cacheMetadata))
  /\ (/\ DefaultGetDone
      /\ last.path \in {PathK0, PathK1}
      /\ AppendBuilt(last.preData, last.preMeta)
      /\ StoredAt(last.preData, last.path) # Undef
      /\ ~PathExpired(last.preData, last.preMeta, last.path, last.t0))
     => (/\ last.outcome = "resolved"
         /\ last.v = StoredAt(last.preData, last.path)
         /\ last.fetched = <<>>)

\* Key k of trees d, m holds an array that put stored as a plain value
StoredAsValue(d, m) ==
  /\ Prop(d, "k").t = "array"
  /\ Prop(m, "k").t = "object"
  /\ IsInt(Prop(Prop(m, "k"), "ttl"))

(***************************************************************************)
(* C20: an array stored as a value.  After put('k', A), put('k[1]', x)     *)
(* replaces element 1 and put('k[]', y) appends y, both without error; a   *)
(* default-mode get('k') of the array, not expired, resolves to the stored *)
(* array and get('k[j]') to its element j.                                 *)
(***************************************************************************)
C20_ArrayStoredAsValue ==
  /\ (/\ last.op = "put"
      /\ last.path \in {PathK1, PathKAppend}
      /\ StoredAsValue(last.preData, last.preMeta))
     => (/\ last.st = "ok"
         /\ Prop(cacheData, "k") =
              IF last.path = PathK1 THEN SetElem(Prop(last.preData, "k"), 1, last.value)
              ELSE Push(Prop(last.preData, "k"), last.value))
  /\ (/\ DefaultGetDone
      /\ last.path \in {PathK, PathK0, PathK1}
      /\ StoredAsValue(last.preData, last.preMeta)
      /\ StoredAt(last.preData, last.path) # Undef
      /\ ~PathExpired(last.preData, last.preMeta, last.path, last.t0))
     => (/\ last.outcome = "resolved"
         /\ last.v = StoredAt(last.preData, last.path)
         /\ last.fetched = <<>>)

\* What get(P) reads when the marker at a is replaced by its target:
\* the segments of P after the first, read from the value cached at b
ReadThroughMarker(d, path) ==
  ValueUnder(Prop(d, "b"), parsePath(path).segs, 2)

(***************************************************************************)
(* C15: reference population.  a holds the marker {$refPath: b}, neither   *)
(* a nor b is expired and the value cached at b holds a value under the    *)
(* remainder of P: a default-mode get(P) resolves to the remainder of P    *)
(* read from the value cached at b, calls no backend, and leaves the       *)
(* marker at a and the value at b as they were.                            *)
(***************************************************************************)
C15_ReferencePopulation ==
  (/\ DefaultGetDone
   /\ last.path \in {PathA, PathAB}
   /\ Prop(last.preData, "a") = ValRefB
   /\ ReadThroughMarker(last.preData, last.path) # Undef
   /\ ~ExpiredAt(last.preMeta, PathA, 1, last.t0)
   /\ ~ExpiredAt(last.preMeta, PathB, 1, last.t0))
  => (/\ last.outcome = "resolved"
      /\ last.v = ReadThroughMarker(last.preData, last.path)
      /\ last.fetched = <<>>
      /\ Prop(cacheData, "a") = ValRefB
      /\ Prop(cacheData, "b") = Prop(last.preData, "b"))

(***************************************************************************)
(* C17: reference isolation.  A populate(elem, refProp) that resolved      *)
(* without a backend call leaves the data tree of the cache as it was.     *)
(***************************************************************************)
C17_PopulateLeavesCache ==
  (/\ last.op = "populate"
   /\ last.outcome = "resolved"
   /\ last.fetched = <<>>)
  => cacheData = last.preData

(***************************************************************************)
(* C18: two successive populate calls.  The target b of the reference in   *)
(* the structure was cached and not expired when each of two successive    *)
(* populate calls on it started: both resolve, to equal results, and       *)
(* neither calls the backend.                                              *)
(***************************************************************************)
C18_PopulateTwice ==
  (/\ last.op = "populate"
   /\ last.prev.op = "populate"
   /\ NodeAt(last.prev.preData, last.pos) = ValHolder
   /\ Prop(last.prev.preData, "b") # Undef
   /\ ~ExpiredAt(last.prev.preMeta, PathB, 1, last.prev.t0)
   /\ ~ExpiredAt(last.preMeta, PathB, 1, last.t0))
  => (/\ last.prev.outcome = "resolved"
      /\ last.outcome = "resolved"
      /\ last.v = last.prev.v
      /\ last.prev.fetched = <<>>
      /\ last.fetched = <<>>)

\* The metadata node of a path
MetaOf(d, m, path) ==
  MetaUnder(d, m, parsePath(path).segs, 1, Len(parsePath(path).segs))

\* A plain object (not an array, not null)
IsObject(x) == x.t = "object"

(***************************************************************************)
(* C21: merge.  The value stored at P and V are both objects and V's id    *)
(* does not contradict P: put(P, V, {merge: true}) stores their shallow    *)
(* union, in which V's properties win and the properties only the stored   *)
(* value has are kept; put(P, V) without merge stores V.  Both give P a    *)
(* TTL of now + the default TTL.                                           *)
(***************************************************************************)
C21_MergeIsShallowUnion ==
  (/\ last.op = "put"
   /\ IsObject(StoredAt(last.preData, last.path))
   /\ IsObject(last.value)
   /\ ~IdMismatch(last.path, last.value))
  => (/\ last.st = "ok"
      /\ StoredAt(cacheData, last.path) =
           IF last.merge
           THEN [t |-> "object",
                 f |-> last.value.f @@ StoredAt(last.preData, last.path).f,
                 e |-> StoredAt(last.preData, last.path).e]
           ELSE last.value
      /\ Prop(MetaOf(cacheData, cacheMetadata, last.path), "ttl")
           = IntNum(last.t0 + DefaultTTL))

(***************************************************************************)
(* C22: put(P, V, {merge: true}) throws and stores nothing when the value  *)
(* stored at P is a string or a number.                                    *)
(***************************************************************************)
C22_MergeOnScalarThrows ==
  (/\ last.op = "put"
   /\ last.merge
   /\ IsScalar(StoredAt(last.preData, last.path)))
  => (/\ last.st = "throw"
      /\ cacheData = last.preData
      /\ cacheMetadata = last.preMeta)

\* Array x holds two elements whose identity fields are loosely equal
TwoLooselyEqualIds(x) ==
  /\ x.t = "array"
  /\ \E i, j \in 1..Len(x.e) :
       /\ i < j
       /\ Prop(x.e[i], idAttr) \notin {Undef, Throw}
       /\ Prop(x.e[j], idAttr) \notin {Undef, Throw}
       /\ LooseEq(Prop(x.e[i], idAttr), Prop(x.e[j], idAttr))

(***************************************************************************)
(* C23: put and get resolve an identity segment to the same element.  The  *)
(* array k never holds two elements with loosely equal identity fields,    *)
(* and after a successful replacing put at an identity path the loose      *)
(* lookup of that path, as get does it, yields the value just put.         *)
(***************************************************************************)
C23_OneElementPerId ==
  /\ ~TwoLooselyEqualIds(Prop(cacheData, "k"))
  /\ (/\ last.op = "put"
      /\ last.st = "ok"
      /\ ~last.merge
      /\ IsIdSeg(Final(parsePath(last.path).segs)))
     => StoredAt(cacheData, last.path) = last.val

\* The last two operations were the same successful replacing put
SamePutTwice ==
  /\ last.op = "put"
  /\ last.prev.op = "put"
  /\ last.st = "ok"
  /\ last.prev.st = "ok"
  /\ ~last.merge
  /\ ~last.prev.merge
  /\ last.prev.path = last.path
  /\ last.prev.value = last.value

(***************************************************************************)
(* C30: idempotent re-put.  When put(P, V) has succeeded and is repeated   *)
(* at once, the second put leaves the data tree as the first one left it   *)
(* (stated for the paths that name a place: "key[]" names a new element    *)
(* on every call).                                                         *)
(***************************************************************************)
C30_RePutIdempotent ==
  (SamePutTwice /\ last.path # PathKAppend) => cacheData = last.preData

(***************************************************************************)
(* Listeners: subscribe, unsubscribe and the puts that notify them.  A     *)
(* listener object is {listenerId, path, onPut, exact}; onPut, the         *)
(* caller's callback, is a fresh function per subscribe call and is what   *)
(* tells two listener objects apart.  The history variable keeps the       *)
(* listener objects subscribe has returned and those passed to             *)
(* unsubscribe.                                                            *)
(***************************************************************************)
MaxOpsL == 4
MaxSubs == 3

\* The listener objects returned so far, and those unsubscribe was called with
Handles == IF last.op = "none" THEN {} ELSE last.handles
Unsubscribed == IF last.op = "none" THEN {} ELSE last.unsub

\* subscribe(path, onPutFunc, exact) with a fresh onPutFunc
SubscribeL(path, exact) ==
  /\ ops < MaxOpsL
  /\ Cardinality(Handles) < MaxSubs
  /\ LET parsed == IF path = StringPath(<<>>) THEN [ok |-> TRUE, segs |-> <<>>]
                   ELSE parsePath(path)
         listener == [listenerId |-> Len(listeners), path |-> parsed.segs,
                      onPut |-> ops, exact |-> exact]
     IN IF parsed.ok
        THEN /\ listeners' = Append(listeners, listener)
             /\ last' = [op |-> "subscribe", st |-> "ok", handles |-> Handles \cup {listener},
                         unsub |-> Unsubscribed]
        ELSE /\ listeners' = listeners
             /\ last' = [op |-> "subscribe", st |-> "throw", handles |-> Handles,
                         unsub |-> Unsubscribed]
  /\ ops' = ops + 1
  /\ UNCHANGED <<cacheData, cacheMetadata, now, calls>>

\* listeners.findIndex(el => el.listenerId === id) + 1, or 0
ListenerIndex(ls, id) ==
  LET hits == {j \in 1..Len(ls) : ls[j].listenerId = id}
  IN IF hits = {} THEN 0 ELSE CHOOSE k \in hits : \A j \in hits : k <= j

\* unsubscribe(listener)
Unsubscribe(listener) ==
  /\ ops < MaxOpsL
  /\ LET idx == ListenerIndex(listeners, listener.listenerId) IN
     listeners' = IF idx > 0
                  THEN [j \in 1..(Len(listeners) - 1) |->
                          IF j < idx THEN listeners[j] ELSE listeners[j + 1]]
                  ELSE listeners
  /\ last' = [op |-> "unsubscribe", st |-> "ok", handles |-> Handles,
              unsub |-> Unsubscribed \cup {listener}]
  /\ ops' = ops + 1
  /\ UNCHANGED <<cacheData, cacheMetadata, now, calls>>

\* put(path, value) with the callbacks it calls, in the order of the calls
PutL(path, value) ==
  /\ ops < MaxOpsL
  /\ LET r == put(cacheData, cacheMetadata, listeners, path, value, DefaultOpts, now) IN
     /\ cacheData' = r.d
     /\ cacheMetadata' = r.m
     /\ last' = [op |-> "put", path |-> path, value |-> value, st |-> r.st, val |-> r.val,
                 fire |-> r.fire,
                 onPut |-> [j \in 1..Len(r.called) |-> listeners[r.called[j]].onPut],
                 preData |-> cacheData, preMeta |-> cacheMetadata,
                 handles |-> Handles, unsub |-> Unsubscribed]
  /\ ops' = ops + 1
  /\ UNCHANGED <<listeners, now, calls>>

PathEmpty == ArrayPath(<<>>)
PathGlobal == StringPath(<<>>)

\* The paths listened to, each with its exact flag
SubscribeInputs ==
  {<<PathGlobal, FALSE>>, <<PathK0, FALSE>>, <<PathK0, TRUE>>, <<PathAB, FALSE>>,
   <<PathA, TRUE>>, <<PathK7, FALSE>>}

PutInputsL ==
  {<<PathA, ValObj>>, <<PathAB, ValStr>>, <<PathK0, ValStr>>, <<PathK1, ValStr>>,
   <<PathK7, ValId7>>, <<PathEmpty, ValStr>>}

NextL ==
  \/ \E in \in SubscribeInputs : SubscribeL(in[1], in[2])
  \/ \E listener \in Handles : Unsubscribe(listener)
  \/ \E in \in PutInputsL : PutL(in[1], in[2])

SpecL == Init /\ [][NextL]_vars

\* Segment ps of a put's path has the key of listener segment ls, and its id
\* and index where ls has one
SegMatches(ls, ps) ==
  /\ ls.key = ps.key
  /\ ls.id # Undef => ls.id = ps.id
  /\ ls.index # Undef => ls.index = ps.index

\* The listener's segments lp are a prefix of the put's segments pp
IsPrefixOf(lp, pp) ==
  /\ Len(lp) <= Len(pp)
  /\ \A i \in 1..Len(lp) : SegMatches(lp[i], pp[i])

\* The callbacks the last put called
CalledByPut == {last.onPut[j] : j \in 1..Len(last.onPut)}

(***************************************************************************)
(* C24: a put that has written its value calls a non-exact listener if and *)
(* only if the listener's segments are a prefix of the put's segments.     *)
(***************************************************************************)
C24_PrefixListenerNotified ==
  (last.op = "put" /\ last.fire)
  => \A j \in 1..Len(listeners) :
       ~listeners[j].exact
       => (listeners[j].onPut \in CalledByPut
           <=> IsPrefixOf(listeners[j].path, parsePath(last.path).segs))

(***************************************************************************)
(* C25: a put calls an exact listener only when its path has as many       *)
(* segments as the listener's and every segment matches.                   *)
(***************************************************************************)
C25_ExactListenerNotified ==
  last.op = "put"
  => \A j \in 1..Len(listeners) :
       (listeners[j].exact /\ listeners[j].onPut \in CalledByPut)
       => /\ Len(listeners[j].path) = Len(parsePath(last.path).segs)
          /\ IsPrefixOf(listeners[j].path, parsePath(last.path).segs)

(***************************************************************************)
(* C26: every put that returns without an error has called each listener   *)
(* subscribed with an empty path exactly once, and the callbacks it called *)
(* were called in the order of their registration.                         *)
(***************************************************************************)
C26_GlobalListenerCalledOnce ==
  (last.op = "put" /\ last.st = "ok")
  => /\ \A j \in 1..Len(listeners) :
          listeners[j].path = <<>>
          => Cardinality({c \in 1..Len(last.onPut) : last.onPut[c] = listeners[j].onPut}) = 1
     /\ \A c, d \in 1..Len(last.onPut) :
          c < d => \E i, j \in 1..Len(listeners) :
                     /\ i < j
                     /\ listeners[i].onPut = last.onPut[c]
                     /\ listeners[j].onPut = last.onPut[d]

(***************************************************************************)
(* C27: the listeners registered are exactly those subscribe has returned  *)
(* and unsubscribe was never called with, and no put calls a listener      *)
(* unsubscribe was called with.                                            *)
(***************************************************************************)
C27_UnsubscribeRemovesItsListener ==
  /\ {listeners[j].onPut : j \in 1..Len(listeners)}
       = {h.onPut : h \in Handles \ Unsubscribed}
  /\ last.op = "put" => CalledByPut \cap {h.onPut : h \in Unsubscribed} = {}

(***************************************************************************)
(* The paths fetchFunc is called with: gets in every form of a path, on a  *)
(* cache that holds values, an array and a reference.                      *)
(***************************************************************************)
PathK7Obj == ObjectPath(KeyObj("k", Num("7")))
PathKx == StringPath(<<KeyId("k", "x")>>)
PathABArray == ArrayPath(<<Key("a"), Key("b")>>)

PutInputsF ==
  {<<PathA, ValObj>>, <<PathA, ValRefB>>, <<PathK7, ValId7>>, <<PathK0, ValStr>>}
GetPathsF == {PathA, PathAB, PathABArray, PathK0, PathK7, PathK7Obj, PathK7Str, PathKx}
ModesF == {CALL_BACKEND_WHEN_EXPIRED, FORCE_BACKEND_CALL}

NextF ==
  \/ \E in \in PutInputsF : Put(in[1], in[2])
  \/ \E p \in GetPathsF, mode \in ModesF : Get(p, mode)
  \/ \E c \in 1..Len(calls), v \in {ValStr, ValObj} : BackendSettle(c, Resolved(v))
  \/ \E c \in 1..Len(calls) : BackendSettle(c, BackendRejected)
  \/ Tick

SpecF == Init /\ [][NextF]_vars

\* A path element in the form the backend is promised: a key, "key[i]", or
\* {key: id}, where an id written in a string is a number when it is all
\* digits and the id of an object keeps its type
NormalPart(part) ==
  CASE part.ty = "o" -> part
    [] part.suf = "idNum" -> KeyObj(part.key, Num(part.arg))
    [] part.suf = "id" -> KeyObj(part.key, Str(part.arg))
    [] OTHER -> part

\* The normalized array forms of path and of its sub-paths
NormalPrefixes(path) ==
  {ArrayPath([i \in 1..n |-> NormalPart(path.parts[i])]) : n \in 1..Len(path.parts)}

\* The paths the references of the cache name
ReferenceTargets == {RefPath(Prop(ValRefB, referencedPathAttr))}

\* Every get, finished or waiting, with a path fetchFunc was called with for it
FetchedFor ==
  UNION {{<<calls[c].h.path, calls[c].h.fetched[j]>> : j \in 1..Len(calls[c].h.fetched)} :
           c \in 1..Len(calls)}
  \cup (IF last.op = "get"
        THEN {<<last.path, last.fetched[j]>> : j \in 1..Len(last.fetched)}
        ELSE {})

\* An identity element whose id is a string of digits
NumericStringId(part) ==
  part.ty = "o" /\ part.id.t = "string" /\ part.id.v \in {"7"}

(***************************************************************************)
(* C28 (as amended): whatever form the caller passes to get, fetchFunc is  *)
(* called with the normalized array form of the path, of one of its        *)
(* sub-paths or of a reference target: keys as strings, index segments as  *)
(* "key[i]", identity segments as {key: id}, where an id of digits written *)
(* in a string path is a number and an id given in object form keeps the   *)
(* caller's type.                                                          *)
(***************************************************************************)
C28_FetchPathNormalized ==
  \A call \in FetchedFor :
    \/ call[2] \in NormalPrefixes(call[1])
    \/ \E target \in ReferenceTargets : call[2] \in NormalPrefixes(target)

\* C28 witness: get("k/7") has called fetchFunc with [{k: 7}]
C28_TextIdFetchedAsNumber ==
  /\ last.op = "get"
  /\ last.path = PathK7
  /\ last.fetched = <<ArrayPath(<<KeyObj("k", Num("7"))>>)>>

(***************************************************************************)
(* C28 (as written): in addition, no identity segment handed to fetchFunc  *)
(* carries a string of digits as its id, whatever form the caller passed.  *)
(***************************************************************************)
C28_FetchPathIdsConverted ==
  /\ C28_FetchPathNormalized
  /\ \A call \in FetchedFor :
       \A i \in 1..Len(call[2].parts) : ~NumericStringId(call[2].parts[i])

(***************************************************************************)
(* parsePath on the text of a path.  A string is the sequence of its       *)
(* characters; a path as the caller writes it is a string, an array of     *)
(* strings and objects, or an object {key: id}.                            *)
(***************************************************************************)
MaxSegs == 2

Text(cs) == [t |-> "string", cs |-> cs]
TextArr(es) == [t |-> "array", e |-> es]
KeyValue(key, val) == [t |-> "object", keys |-> <<key>>, vals |-> <<val>>]

\* The character classes of pathElemRegEx, over the characters of the model
Digits == {"0", "1", "4", "7"}
Letters == {"a", "b", "f", "k", "x"}
KeyStartChars == Letters \cup {"_", "$"}
KeyChars == KeyStartChars \cup Digits \cup {"-"}
IdStartChars == Letters \cup Digits \cup {"_", "$"}
IdChars == KeyChars

AllIn(cs, S) == \A i \in 1..Len(cs) : cs[i] \in S

RECURSIVE Join(_)
\* The string of a sequence of characters
Join(cs) == IF cs = <<>> THEN "" ELSE cs[1] \o Join(Tail(cs))

DigitValue(c) == CASE c = "0" -> 0 [] c = "1" -> 1 [] c = "4" -> 4 [] c = "7" -> 7

RECURSIVE parseInt(_)
\* parseInt(text, 10) of a text of digits
parseInt(cs) ==
  IF cs = <<>> THEN 0
  ELSE 10 * parseInt(SubSeq(cs, 1, Len(cs) - 1)) + DigitValue(cs[Len(cs)])

RECURSIVE Split(_)
\* text.split(".")
Split(cs) ==
  IF \A i \in 1..Len(cs) : cs[i] # "." THEN <<cs>>
  ELSE LET dot == CHOOSE i \in 1..Len(cs) : cs[i] = "." /\ \A j \in 1..(i - 1) : cs[j] # "."
       IN <<SubSeq(cs, 1, dot - 1)>> \o Split(SubSeq(cs, dot + 1, Len(cs)))

\* The longest prefix of cs that the key group matches
KeyLength(cs) ==
  IF cs = <<>> \/ cs[1] \notin KeyStartChars THEN 0
  ELSE CHOOSE n \in 1..Len(cs) :
         /\ AllIn(SubSeq(cs, 1, n), KeyChars)
         /\ n = Len(cs) \/ cs[n + 1] \notin KeyChars

\* The groups of a match; a group that took no part is the empty text
NoMatch == [ok |-> FALSE]
Groups(key, index, appendArray, idNum, id) ==
  [ok |-> TRUE, key |-> key, index |-> index, appendArray |-> appendArray,
   idNum |-> idNum, id |-> id]

\* pathElemRegEx as it was before the idNum group: every id is a text
pathElemRegExWithoutIdNum(cs) ==
  LET n == KeyLength(cs)
      key == SubSeq(cs, 1, n)
      rest == SubSeq(cs, n + 1, Len(cs))
  IN IF n = 0 THEN NoMatch
     ELSE IF rest = <<>> THEN Groups(key, <<>>, FALSE, <<>>, <<>>)
     ELSE IF rest = <<"[", "]">> THEN Groups(key, <<>>, TRUE, <<>>, <<>>)
     ELSE IF /\ Len(rest) >= 3 /\ rest[1] = "[" /\ rest[Len(rest)] = "]"
             /\ AllIn(SubSeq(rest, 2, Len(rest) - 1), Digits)
     THEN Groups(key, SubSeq(rest, 2, Len(rest) - 1), FALSE, <<>>, <<>>)
     ELSE IF /\ Len(rest) >= 2 /\ rest[1] = "/" /\ rest[2] \in IdStartChars
             /\ AllIn(Tail(rest), IdChars)
     THEN Groups(key, <<>>, FALSE, <<>>, Tail(rest))
     ELSE NoMatch

\* pathElem.match(pathElemRegEx): key, then at most one of [index], [],
\* /idNum and /id, tried in this order, up to the end of the text
pathElemRegEx(cs) ==
  LET n == KeyLength(cs)
      key == SubSeq(cs, 1, n)
      rest == SubSeq(cs, n + 1, Len(cs))
  IN IF n = 0 THEN NoMatch
     ELSE IF rest = <<>> THEN Groups(key, <<>>, FALSE, <<>>, <<>>)
     ELSE IF /\ Len(rest) >= 3 /\ rest[1] = "[" /\ rest[Len(rest)] = "]"
             /\ AllIn(SubSeq(rest, 2, Len(rest) - 1), Digits)
     THEN Groups(key, SubSeq(rest, 2, Len(rest) - 1), FALSE, <<>>, <<>>)
     ELSE IF rest = <<"[", "]">> THEN Groups(key, <<>>, TRUE, <<>>, <<>>)
     ELSE IF Len(rest) >= 2 /\ rest[1] = "/" /\ AllIn(Tail(rest), Digits)
     THEN Groups(key, <<>>, FALSE, Tail(rest), <<>>)
     ELSE IF /\ Len(rest) >= 2 /\ rest[1] = "/" /\ rest[2] \in IdStartChars
             /\ AllIn(Tail(rest), IdChars)
     THEN Groups(key, <<>>, FALSE, <<>>, Tail(rest))
     ELSE NoMatch

\* !pathElem
FalsyElem(el) == el.t \in {"undefined", "null"} \/ (el.t = "string" /\ el.cs = <<>>)

Invalid == [ok |-> FALSE]

\* The body of parsePath's loop for one element: [ok, seg]
ParseTextElem(el) ==
  IF FalsyElem(el) THEN Invalid
  ELSE IF el.t = "string"
  THEN LET match == pathElemRegEx(el.cs) IN
       IF ~match.ok THEN Invalid
       ELSE [ok |-> TRUE,
             seg |-> [key |-> Join(match.key),
                      id |-> IF match.idNum # <<>> THEN Num(ToString(parseInt(match.idNum)))
                             ELSE IF match.id # <<>> THEN Str(Join(match.id))
                             ELSE Undef,
                      index |-> IF match.index # <<>> THEN IntNum(parseInt(match.index))
                                ELSE Undef,
                      appendArray |-> match.appendArray]]
  ELSE IF el.t = "object" /\ Len(el.keys) = 1
  THEN [ok |-> TRUE,
        seg |-> [key |-> Join(el.keys[1]), id |-> el.vals[1], index |-> Undef,
                 appendArray |-> FALSE]]
  ELSE Invalid

\* parsePath(path) on the caller's value: [ok, segs]; ok = FALSE when it throws
parsePathOfText(path) ==
  IF FalsyElem(path) THEN [ok |-> FALSE, segs |-> <<>>]
  ELSE IF path.t \notin {"string", "array"} /\ ~(path.t = "object" /\ Len(path.keys) = 1)
  THEN [ok |-> FALSE, segs |-> <<>>]
  ELSE
    LET result == CASE path.t = "string" ->
                         LET parts == Split(path.cs) IN [i \in 1..Len(parts) |-> Text(parts[i])]
                    [] path.t = "array" -> path.e
                    [] OTHER -> <<path>>
    IN IF \E i \in 1..Len(result) : ~ParseTextElem(result[i]).ok
       THEN [ok |-> FALSE, segs |-> <<>>]
       ELSE [ok |-> TRUE, segs |-> [i \in 1..Len(result) |-> ParseTextElem(result[i]).seg]]

(***************************************************************************)
(* The paths given to parsePath.  A path is a sequence of steps: a key, an *)
(* index, an append marker, or an identity whose id the caller has as a    *)
(* number (n, written with the digits of text), as a text, or as any value *)
(* inside an object.  Each path is written in every form it has.           *)
(***************************************************************************)
Step(kind, key, text, n, id) == [kind |-> kind, key |-> key, text |-> text, n |-> n, id |-> id]

Steps ==
  {Step("plain", <<"a">>, <<>>, 0, Undef),
   Step("plain", <<"$", "b", "-", "1">>, <<>>, 0, Undef),
   Step("index", <<"k">>, <<"0">>, 0, Undef),
   Step("index", <<"k">>, <<"4", "1">>, 41, Undef),
   Step("append", <<"k">>, <<>>, 0, Undef),
   Step("number", <<"k">>, <<"4", "7", "1", "1">>, 4711, Undef),
   Step("number", <<"k">>, <<"0">>, 0, Undef),
   Step("text", <<"k">>, <<"x">>, 0, Undef),
   Step("text", <<"k">>, <<"4", "a", "-", "f">>, 0, Undef),
   Step("value", <<"k">>, <<>>, 0, Str("4711")),
   Step("value", <<"f">>, <<>>, 0, Bool("true"))}

PathsOfSteps == UNION {[1..n -> Steps] : n \in 1..MaxSegs}

\* The step as a string element: key, key[index], key[], key/id
StepText(s) ==
  CASE s.kind = "plain" -> s.key
    [] s.kind = "index" -> s.key \o <<"[">> \o s.text \o <<"]">>
    [] s.kind = "append" -> s.key \o <<"[", "]">>
    [] OTHER -> s.key \o <<"/">> \o s.text

\* The id the caller holds
StepId(s) ==
  CASE s.kind = "number" -> Num(ToString(s.n))
    [] s.kind = "text" -> Str(Join(s.text))
    [] OTHER -> s.id

IsIdStep(s) == s.kind \in {"number", "text", "value"}

RECURSIVE Dotted(_)
\* The steps joined with dots
Dotted(p) ==
  IF Len(p) = 1 THEN StepText(p[1]) ELSE StepText(p[1]) \o <<".">> \o Dotted(Tail(p))

\* The forms of path p: the dotted string (a bare string for one step), the
\* array of strings, the array with identities as objects, the bare object
FormsOf(p) ==
  (IF \A i \in 1..Len(p) : p[i].kind # "value"
   THEN {Text(Dotted(p)), TextArr([i \in 1..Len(p) |-> Text(StepText(p[i]))])}
   ELSE {})
  \cup {TextArr([i \in 1..Len(p) |->
                   IF IsIdStep(p[i]) THEN KeyValue(p[i].key, StepId(p[i]))
                   ELSE Text(StepText(p[i]))])}
  \cup (IF Len(p) = 1 /\ IsIdStep(p[1]) THEN {KeyValue(p[1].key, StepId(p[1]))} ELSE {})

\* Values that are no path, or a path with a misspelt element
OddPaths ==
  {Undef, Text(<<>>), TextArr(<<>>), TextArr(<<Undef>>),
   [t |-> "object", keys |-> <<>>, vals |-> <<>>],
   [t |-> "object", keys |-> <<<<"a">>, <<"b">>>>, vals |-> <<Num("1"), Num("4")>>],
   Text(<<"a", ".", ".", "b">>), Text(<<"7", "a">>), Text(<<"k", "/">>),
   Text(<<"k", "[", "0", "]", "/", "7">>), Text(<<"k", "[", "a", "]">>),
   TextArr(<<Text(<<"a", ".", "b">>)>>)}

PathTexts == OddPaths \cup UNION {FormsOf(p) : p \in PathsOfSteps}

InitT ==
  /\ cacheData = EmptyObj
  /\ cacheMetadata = EmptyObj
  /\ listeners = <<>>
  /\ now = 0
  /\ calls = <<>>
  /\ last \in {[op |-> "path", path |-> path] : path \in PathTexts}
  /\ ops = 0

\* parsePath(path) called on the path at hand
ParsePath ==
  /\ last.op = "path"
  /\ last' = [op |-> "parsePath", path |-> last.path, result |-> parsePathOfText(last.path)]
  /\ UNCHANGED <<cacheData, cacheMetadata, listeners, now, calls, ops>>

NextT == ParsePath

SpecT == InitT /\ [][NextT]_vars

\* The segment a step stands for
SegmentOf(s) ==
  [key |-> Join(s.key),
   id |-> IF IsIdStep(s) THEN StepId(s) ELSE Undef,
   index |-> IF s.kind = "index" THEN IntNum(s.n) ELSE Undef,
   appendArray |-> s.kind = "append"]

\* How many of id, index and appendArray a segment has
SetOf(seg) ==
  (IF seg.id # Undef THEN {"id"} ELSE {})
  \cup (IF seg.index # Undef THEN {"index"} ELSE {})
  \cup (IF seg.appendArray THEN {"appendArray"} ELSE {})

(***************************************************************************)
(* C29: parsePath maps every form of a path (dotted or bare string, array  *)
(* of strings and objects, bare object) to the same segments, one per      *)
(* step: an id of digits written in a string is the number, a text id      *)
(* stays a string, the id of an object keeps its type; and no segment it   *)
(* returns has more than one of id, index and appendArray.                 *)
(***************************************************************************)
C29_FormsParseAlike ==
  last.op = "parsePath"
  => /\ \A p \in PathsOfSteps :
          last.path \in FormsOf(p)
          => last.result = [ok |-> TRUE, segs |-> [i \in 1..Len(p) |-> SegmentOf(p[i])]]
     /\ last.result.ok
        => \A i \in 1..Len(last.result.segs) : Cardinality(SetOf(last.result.segs[i])) <= 1

\* C29 witness: "a.k/4711" has been parsed into the key a and the number 4711 under k
C29_DottedNumericId ==
  /\ last.op = "parsePath"
  /\ last.path = Text(<<"a", ".", "k", "/", "4", "7", "1", "1">>)
  /\ last.result = [ok |-> TRUE,
                    segs |-> <<[key |-> "a", id |-> Undef, index |-> Undef,
                                appendArray |-> FALSE],
                               [key |-> "k", id |-> Num("4711"), index |-> Undef,
                                appendArray |-> FALSE]>>]

\* In trees d and m at time t, a holds a reference to b whose own TTL has
\* passed, and b holds a value that is not expired
StaleMarkerFreshTarget(d, m, t) ==
  /\ Prop(d, "a") = ValRefB
  /\ IsExpired(Prop(m, "a"), t)
  /\ Truthy(Prop(d, "b"))
  /\ Prop(m, "b") # Undef
  /\ ~IsExpired(Prop(m, "b"), t)

(***************************************************************************)
(* C36: a reference marker is never refetched.  A default-mode get("a")    *)
(* that starts while a holds a marker with a TTL in the past and the       *)
(* target b is cached and fresh calls the backend for no path and resolves *)
(* to the value of b.                                                      *)
(***************************************************************************)
C36_MarkerNeverRefetched ==
  /\ \A c \in 1..Len(calls) :
       ~(/\ calls[c].h.path = PathA
         /\ calls[c].h.mode = CALL_BACKEND_WHEN_EXPIRED
         /\ StaleMarkerFreshTarget(calls[c].h.preData, calls[c].h.preMeta, calls[c].h.t0))
  /\ (/\ last.op = "get"
      /\ last.path = PathA
      /\ last.mode = CALL_BACKEND_WHEN_EXPIRED
      /\ StaleMarkerFreshTarget(last.preData, last.preMeta, last.t0))
     => (/\ last.fetched = <<>>
         /\ last.outcome = "resolved"
         /\ last.v = Prop(last.preData, "b"))


\* The puts of PutInputsL with a path that put accepts
ValidPutL == {in \in PutInputsL : parsePath(in[1]).ok /\ parsePath(in[1]).segs # <<>>}

(* C39: registered listeners never make a valid put fail.  Whatever          *)
(* listeners are registered, a put on a valid path completes normally and   *)
(* the cache then holds its value at that path; a listener that does not     *)
(* match, such as a non-exact one with more segments than the put's path,    *)
(* is just not notified.                                                     *)
C39_ListenersNeverFailPut ==
  (/\ last.op = "put"
   /\ <<last.path, last.value>> \in ValidPutL)
  => (/\ last.st = "ok"
      /\ StoredAt(cacheData, last.path) = last.val)


(***************************************************************************)
(* Puts that throw for a structural reason                                 *)
(***************************************************************************)
PathAAppend == StringPath(<<KeyAppend("a")>>)
PathKAppendB == StringPath(<<KeyAppend("k"), Key("b")>>)

PutInputsS ==
  {<<PathA, ValStr>>, <<PathAAppend, ValStr>>, <<PathKAppend, ValStr>>,
   <<PathKAppendB, ValStr>>, <<PathK7, ValStr>>, <<PathK7, ValId7>>}

\* The cache under puts of which some are structurally wrong, with a global
\* listener
NextS ==
  \/ \E in \in PutInputsS : Put(in[1], in[2])
  \/ Subscribe(StringPath(<<>>), FALSE)
  \/ Tick

SpecS == Init /\ [][NextS]_vars

\* The append marker stands before the final segment of segs
AppendBeforeFinal(segs) == \E j \in 1..(Len(segs) - 1) : segs[j].appendArray

\* The final segment of segs appends to something in d that is not an array
AppendToNonArray(d, segs) ==
  /\ Len(segs) = 1
  /\ segs[1].appendArray
  /\ Truthy(Prop(d, segs[1].key))
  /\ Prop(d, segs[1].key).t # "array"

\* The final segment of segs is an identity and the value is not an object
ScalarUnderId(segs, value) ==
  /\ segs # <<>>
  /\ IsIdSeg(Final(segs))
  /\ TypeOf(value) # "object"

\* The last operation was a put with one of the structural errors
StructuralError ==
  /\ last.op = "put"
  /\ parsePath(last.path).ok
  /\ LET segs == parsePath(last.path).segs IN
     \/ AppendBeforeFinal(segs)
     \/ AppendToNonArray(last.preData, segs)
     \/ ScalarUnderId(segs, last.value)

(* C37: a put that throws for a structural reason is atomic.  After a put  *)
(* with the append marker before the final segment, an append to a value   *)
(* that is not an array, or a non-object value under an identity leaf, the *)
(* put has thrown, the data tree and the metadata tree are what they were  *)
(* before the call, and no listener was notified.                          *)
C37_StructuralThrowIsAtomic ==
  StructuralError
  => (/\ last.st = "throw"
      /\ cacheData = last.preData
      /\ cacheMetadata = last.preMeta
      /\ last.notified = <<>>)


(***************************************************************************)
(* getMetadata, and arrays with pruned elements                            *)
(***************************************************************************)
RECURSIVE GetMetadataWalk(_, _, _)
\* The body of getMetadata's loop for segment i, with metadataElem = me
GetMetadataWalk(me, segs, i) ==
  IF i > Len(segs) THEN Returned(me)
  ELSE
    LET s == segs[i]
        up == IF Truthy(me) THEN Prop(me, s.key) ELSE Undef
    IN
    IF ~Truthy(up) THEN Returned(Undef)
    ELSE IF IsPlainSeg(s) THEN GetMetadataWalk(up, segs, i + 1)
    ELSE IF IsIndexSeg(s) THEN GetMetadataWalk(Elem(up, s.index.n), segs, i + 1)
    ELSE IF IsIdSeg(s)
    THEN LET found == FindIndexBy(up, s.id, TRUE) IN
         IF found.st = "throw" THEN Threw("TypeError")
         ELSE IF found.st = "none" THEN Returned(Undef)
         ELSE GetMetadataWalk(Elem(up, found.i), segs, i + 1)
    ELSE Threw("invalid path element")

\* getMetadata(path) on metadata tree m; no path or an empty one gives the tree
getMetadata(m, path) ==
  IF path = Undef \/ path = StringPath(<<>>) THEN Returned(m)
  ELSE LET parsed == parsePath(path) IN
       IF ~parsed.ok THEN Threw("invalid path")
       ELSE GetMetadataWalk(IF Truthy(m) THEN m ELSE EmptyObj, parsed.segs, 1)

\* getMetadata(path) as a caller's operation
GetMetadata(path) ==
  /\ ops < MaxOps
  /\ last' = [op |-> "getMetadata", path |-> path, r |-> getMetadata(cacheMetadata, path),
              preData |-> cacheData, preMeta |-> cacheMetadata]
  /\ ops' = ops + 1
  /\ UNCHANGED <<cacheData, cacheMetadata, listeners, now, calls>>

PutInputsH == {<<PathK7, ValId7>>, <<PathK1, ValStr>>}

\* The cache under identity and index puts into one array, pruning, and
\* identity reads of that array
NextH ==
  \/ \E in \in PutInputsH : Put(in[1], in[2])
  \/ \E ord \in Orderings(DOMAIN cacheData.f) : DeleteExpiredElems(ord)
  \/ Get(PathK7, CALL_BACKEND_WHEN_EXPIRED)
  \/ \E c \in 1..Len(calls) : BackendSettle(c, Resolved(ValId7))
  \/ GetMetadata(PathK7)
  \/ Tick

SpecH == Init /\ [][NextH]_vars

\* The array k of data tree d has an element that was pruned or skipped over
HasPrunedElement(d) ==
  /\ Prop(d, "k").t = "array"
  /\ \E j \in 1..Len(Prop(d, "k").e) : IsNullish(Prop(d, "k").e[j])

(* C40: operations with an identity segment on an array that has a pruned  *)
(* element, or a hole left by an index put, treat that element as absent   *)
(* and do not fail.  A put of an element with the id stores it, a          *)
(* default-mode get calls the backend once and resolves to its value, and  *)
(* getMetadata returns.                                                    *)
C40_PrunedElementIsAbsent ==
  /\ (/\ last.op = "put" /\ last.path = PathK7 /\ last.value = ValId7
      /\ HasPrunedElement(last.preData))
     => (/\ last.st = "ok"
         /\ StoredAt(cacheData, PathK7) = last.val)
  /\ (/\ last.op = "get" /\ last.path = PathK7
      /\ HasPrunedElement(last.preData))
     => (/\ last.outcome = "resolved"
         /\ Len(last.results) = 1
         /\ last.v = last.results[1])
  /\ (/\ last.op = "getMetadata" /\ last.path = PathK7
      /\ HasPrunedElement(last.preData))
     => last.r.st = "ok"


(***************************************************************************)
(* Data and metadata side by side                                          *)
(***************************************************************************)
\* The properties a metadata node holds about its own value
OwnMeta == {"ttl", "type", idAttr}

RECURSIVE NoOrphan(_, _)
\* Every key and every array index below metadata node m is one of data node d
NoOrphan(d, m) ==
  IF ~IsContainer(m) THEN TRUE
  ELSE
    /\ \A k \in (DOMAIN m.f) \ OwnMeta :
         /\ IsContainer(d)
         /\ k \in DOMAIN d.f
         /\ NoOrphan(d.f[k], m.f[k])
    /\ \A j \in 1..Len(m.e) :
         m.e[j] # Undef => (/\ IsContainer(d)
                            /\ j <= Len(d.e)
                            /\ NoOrphan(d.e[j], m.e[j]))

\* The metadata node at the position a put at `path` wrote its value to: for
\* an append the index of the last element of the data array
WrittenMeta(d, m, path) ==
  LET segs == parsePath(path).segs IN
  IF Final(segs).appendArray
  THEN LET dk == StoredAt(d, path)
           mk == MetaOf(d, m, path)
       IN IF dk.t = "array" /\ Truthy(mk) THEN Elem(mk, Len(dk.e) - 1) ELSE Undef
  ELSE MetaOf(d, m, path)

(* C35: data and metadata stay mirrored.  In every state the metadata tree *)
(* holds no key and no array index that the data tree does not hold, and   *)
(* after a put that wrote its value the metadata node at the position of   *)
(* the value (same keys, same array index) holds a ttl.                    *)
C35_MetadataMirrorsData ==
  /\ NoOrphan(cacheData, cacheMetadata)
  /\ (/\ last.op = "put"
      /\ last.st = "ok"
      /\ parsePath(last.path).segs # <<>>)
     => IsInt(Prop(WrittenMeta(cacheData, cacheMetadata, last.path), "ttl"))


(***************************************************************************)
(* Puts with a ttl of their own                                            *)
(***************************************************************************)
\* put(path, value, {ttl: ttl}) as a caller's operation
PutTtl(path, value, ttl) ==
  /\ ops < MaxOps
  /\ LET r == put(cacheData, cacheMetadata, listeners, path, value,
                  [DefaultOpts EXCEPT !.ttl = ttl], now) IN
     /\ cacheData' = r.d
     /\ cacheMetadata' = r.m
     /\ last' = [op |-> "put", path |-> path, value |-> value, ttl |-> ttl, t0 |-> now,
                 st |-> r.st, val |-> r.val, notified |-> r.notified, fire |-> r.fire,
                 preData |-> cacheData, preMeta |-> cacheMetadata]
  /\ ops' = ops + 1
  /\ UNCHANGED <<listeners, now, calls>>

\* The ttl options given to put: shorter and longer than the default
TtlInputs == {0, 2}
PutInputsG ==
  {<<PathA, ValStr>>, <<PathA, ValObj>>, <<PathK0, ValStr>>, <<PathK7, ValId7>>,
   <<PathKAppend, ValStr>>}
GetPathsG == {PathA, PathK0, PathK7}

\* The cache under puts with and without a ttl option and default-mode gets
NextG ==
  \/ \E in \in PutInputsG, ttl \in TtlInputs : PutTtl(in[1], in[2], ttl)
  \/ \E in \in PutInputsG : Put(in[1], in[2])
  \/ \E p \in GetPathsG : Get(p, CALL_BACKEND_WHEN_EXPIRED)
  \/ \E c \in 1..Len(calls), v \in {ValStr, ValObj} : BackendSettle(c, Resolved(v))
  \/ Tick

SpecG == Init /\ [][NextG]_vars

\* The ttl option of the last put: the configured default when none was given
TtlOfPut == IF "ttl" \in DOMAIN last THEN last.ttl ELSE DefaultTTL

\* A value is cached at the path, with a ttl of its own and no reference marker
CachedWithTtl(d, m, path) ==
  /\ Truthy(StoredAt(d, path))
  /\ ~HasMarker(d)
  /\ IsInt(Prop(MetaOf(d, m, path), "ttl"))

\* The ttl of the metadata node of the path
TtlAt(d, m, path) == Prop(MetaOf(d, m, path), "ttl").n

\* The metadata node a put at the path has written: the node of the path, and
\* for an append the node pushed to the metadata array
MetaWrittenBy(d, m, path) ==
  LET node == MetaOf(d, m, path) IN
  IF ~Final(parsePath(path).segs).appendArray THEN node
  ELSE IF node.t = "array" /\ node.e # <<>> THEN Final(node.e)
  ELSE Undef

ParsePathOf(path) ==
  /\ ops < MaxOps
  /\ last' = [op |-> "parsePath", path |-> path, result |-> parsePath(path)]
  /\ ops' = ops + 1
  /\ UNCHANGED <<cacheData, cacheMetadata, listeners, now, calls>>

PutInputsR ==
  {<<PathA, ValStr>>, <<PathA, ValRefB>>, <<PathB, ValStr>>, <<PathK0, ValStr>>,
   <<PathK7, ValId7>>}

\* The cache under puts, a listener, time, and every operation that reads
NextR ==
  \/ \E in \in PutInputsR : Put(in[1], in[2])
  \/ Subscribe(StringPath(<<>>), FALSE)
  \/ \E p \in GetPaths, mode \in Modes : Get(p, mode)
  \/ \E c \in 1..Len(calls) : BackendSettle(c, Resolved(ValStr))
  \/ \E c \in 1..Len(calls) : BackendSettle(c, BackendRejected)
  \/ \E p \in GetPaths, throwWhenExpired \in BOOLEAN : GetSync(p, throwWhenExpired)
  \/ \E p \in GetPaths : IsInCache(p)
  \/ \E p \in GetPaths \cup {Undef} : GetMetadata(p)
  \/ \E p \in GetPaths : ParsePathOf(p)
  \/ Tick

SpecR == Init /\ [][NextR]_vars

\* The step was a getSync, an isInCache, a getMetadata, a parsePath, or a get
\* that settled without a call of the backend
ReadStep ==
  \/ last'.op \in {"getSync", "isInCache", "getMetadata", "parsePath"}
  \/ (last'.op = "get" /\ last'.fetched = <<>>)

(* C33: the operations that read leave the cache as it was.  A step that   *)
(* is a getSync, an isInCache, a getMetadata, a parsePath or a get served  *)
(* without a backend call changes neither the data tree nor the metadata   *)
(* tree (no TTL is refreshed, no expired element removed) nor the          *)
(* listener list.                                                          *)
C33_ReadsChangeNothing ==
  [][ReadStep => UNCHANGED <<cacheData, cacheMetadata, listeners>>]_vars

\* A read has found something in a cache that holds an expired element and
\* has a listener: a get that resolved from the cache, or an isInCache that
\* said yes
C33_ReadBesideExpired ==
  /\ \/ (last.op = "get" /\ last.fetched = <<>> /\ last.outcome = "resolved")
     \/ (last.op = "isInCache" /\ last.r)
  /\ AnyExpired(cacheMetadata, now)
  /\ listeners # <<>>


(***************************************************************************)
(* Chains and cycles of reference markers                                  *)
(***************************************************************************)
ValRefA == Obj(referencedPathAttr :> Str("a"))
ValRefK7 == Obj(referencedPathAttr :> Str("k/7"))

PutInputsV ==
  {<<PathA, ValRefB>>, <<PathB, ValRefA>>, <<PathB, ValRefB>>, <<PathB, ValRefK7>>,
   <<PathB, ValStr>>}
GetPathsV == {PathA, PathB}
SettledV == {Resolved(ValStr), Resolved(ValObj), Resolved(ValZero), BackendRejected}

\* The promise of some backend call settles
BackendSettles == \E c \in 1..Len(calls), settled \in SettledV : BackendSettle(c, settled)

\* The cache under puts of markers that point to markers, to themselves and
\* to each other, and gets in every mode
NextV ==
  \/ \E in \in PutInputsV : Put(in[1], in[2])
  \/ \E p \in GetPathsV, mode \in Modes : Get(p, mode)
  \/ BackendSettles
  \/ Tick

\* Every backend call that was issued settles
SpecV == Init /\ [][NextV]_vars /\ WF_vars(BackendSettles)

MaxCallsC == 2

\* get(path, {callBackend: mode}) of a caller that does not wait for its
\* earlier gets
GetOverlapping(path, mode) ==
  /\ ops < MaxOps
  /\ Len(calls) < MaxCallsC
  /\ LET h == [path |-> path, mode |-> mode,
               prev |-> IF last.op \in {"put", "get"} /\ last.path = path
                        THEN Strip(last) ELSE NoOp,
               preData |-> cacheData, preMeta |-> cacheMetadata, t0 |-> now,
               fetched |-> <<>>, results |-> <<>>, wrote |-> FALSE]
         opts == [DefaultOpts EXCEPT !.callBackend = mode]
         parsed == parsePath(path)
     IN IF ~parsed.ok THEN Settle(h, Rejected("invalid path"), calls)
        ELSE Settle(h, Run(<<>>, Exec(Frame(parsed.segs, opts, cacheData), "P0",
                                      cacheMetadata, now),
                           cacheData, cacheMetadata, now), calls)
  /\ ops' = ops + 1
  /\ UNCHANGED <<cacheData, cacheMetadata, listeners, now>>

\* A suspended get keeps the metadata object its local metadataElem was
\* taken from; once the cache has replaced its root, the frame reads the
\* root it started with
KeepView(fr, m) == IF "view" \in DOMAIN fr THEN fr ELSE fr @@ [view |-> m]

\* emptyCache() as a caller's operation: both trees are replaced by new
\* empty objects; the gets that wait keep the objects they hold
EmptyCache ==
  /\ ops < MaxOps
  /\ cacheData' = EmptyObj
  /\ cacheMetadata' = EmptyObj
  /\ calls' = [c \in 1..Len(calls) |->
                 [calls[c] EXCEPT !.stack = [f \in 1..Len(@) |-> KeepView(@[f], cacheMetadata)]]]
  /\ last' = [op |-> "emptyCache", preData |-> cacheData, preMeta |-> cacheMetadata]
  /\ ops' = ops + 1
  /\ UNCHANGED <<listeners, now>>

PutInputsC == {<<PathA, ValStr>>, <<PathA, ValObj>>, <<PathK7, ValId7>>}
GetPathsC == {PathA, PathK7}
BackendValuesC == {ValStr, ValZero, ValId7}
ModesC == {CALL_BACKEND_WHEN_EXPIRED, FORCE_BACKEND_CALL}

\* The cache under gets of one path that overlap, and puts, deletes and
\* emptyCache while they wait for the backend
NextC ==
  \/ \E in \in PutInputsC : Put(in[1], in[2])
  \/ \E p \in GetPathsC : Delete(p)
  \/ EmptyCache
  \/ \E p \in GetPathsC, mode \in ModesC : GetOverlapping(p, mode)
  \/ \E c \in 1..Len(calls), v \in BackendValuesC : BackendSettle(c, Resolved(v))
  \/ \E c \in 1..Len(calls) : BackendSettle(c, BackendRejected)
  \/ \E exact \in BOOLEAN : Subscribe(PathA, exact)
  \/ Tick

SpecC == Init /\ [][NextC]_vars


\* Nothing is cached at the path, or what is cached there is expired
AbsentOrExpired(path) ==
  \/ StoredAt(cacheData, path) = Undef
  \/ IsExpired(MetaOf(cacheData, cacheMetadata, path), now)

\* A step in which a caller starts a get
GetStarts == ops' = ops + 1 /\ last'.op \in {"get", "get waits"}

\* A default-mode get has finished, it called the backend and no backend call
\* of it rejected
DefaultGetAnswered ==
  /\ last.op = "get"
  /\ last.mode = CALL_BACKEND_WHEN_EXPIRED
  /\ last.fetched # <<>>
  /\ ~last.backendRejected

(* C31: overlapping gets are not coalesced.  A default-mode get of a path  *)
(* that is absent or expired issues a backend call of its own, whether or  *)
(* not other gets of the path wait for the backend; a get whose backend    *)
(* calls resolved resolves to the result of its own last call, and when it *)
(* resolves the path holds that result with ttl = now + the default TTL,   *)
(* so that after two overlapping gets the cache holds what was written for *)
(* the call that resolved last.                                            *)
C31_OverlappingGetsEachFetch ==
  /\ [][(GetStarts /\ last'.mode = CALL_BACKEND_WHEN_EXPIRED /\ AbsentOrExpired(last'.path))
          => /\ last'.op = "get waits"
             /\ Len(calls') = Len(calls) + 1
             /\ Len(Final(calls').h.fetched) = 1]_vars
  /\ [](DefaultGetAnswered =>
          /\ last.outcome = "resolved"
          /\ last.v = Final(last.results)
          /\ StoredAt(cacheData, last.path) = last.v
          /\ TtlAt(cacheData, cacheMetadata, last.path) = now + DefaultTTL)

\* The call was waiting for the backend when the last operation, a put or a
\* delete of its path or emptyCache, was made
WrittenInFlight(call) ==
  /\ last.op \in {"put", "delete", "emptyCache"}
  /\ last.op = "emptyCache" \/ last.path = call.h.path

\* The listeners that a put at the path has to notify are among those the
\* put of the backend's result v calls
MatchingNotified(call, v) ==
  LET r == put(cacheData, cacheMetadata, listeners, FetchPath(call), v, DefaultOpts, now)
  IN \A j \in 1..Len(listeners) :
       ListenerMatch(listeners[j], parsePath(call.h.path).segs) = "yes"
         => \E n \in 1..Len(r.notified) : r.notified[n] = listeners[j].listenerId

PutAccepts(path, v) ==
  LET seg == Final(parsePath(path).segs) IN
  \/ ~Truthy(seg.id)
  \/ /\ TypeOf(v) = "object"
     /\ ~Truthy(v) \/ ~Truthy(Prop(v, idAttr)) \/ LooseEq(Prop(v, idAttr), seg.id)

\* The get of the call, after the step, has rejected with the error of put
RejectedByPut == last'.op = "get" /\ last'.outcome = "rejected" /\ last'.why = "put threw"

====
